---- MODULE Spec2Model ----
(***************************************************************************)
(* NL->SQL sales chatbot: the query guard (sql_guard.py), the fallback     *)
(* selector, the deterministic adapter (llm_adapter.py) and the question   *)
(* pipeline (chatbot_app.py).                                              *)
(*                                                                         *)
(* A Python str is a sequence of characters; a character is a one-letter   *)
(* TLA+ string ("\n" is the line break, the kanji and kana of the keyword  *)
(* tables are written by their readings, e.g. "kita" for U+5317, and the   *)
(* backquote of a code fence is written "BQ").                             *)
(***************************************************************************)
EXTENDS Integers, Sequences, FiniteSets, TLC

VARIABLES
    raw_sql,      \* the completion: sanitize_sql's argument
    sanitized,    \* what sanitize_sql(raw_sql) did: a query or a raised error
    resanitized,  \* what sanitize_sql did on its own output
    question,     \* the question text
    fallback,     \* get_fallback_query(question)
    generated,    \* MockLLMAdapter.generate_sql(question)
    checked,      \* sanitize_sql applied to fallback and to generated
    env,          \* os.environ and the provider packages that import
    pc,           \* the statement the page's handler is at
    sql,          \* the handler's local sql: the query it goes on with
    executed,     \* the queries handed to con.execute for this question
    result_df,    \* rows of the table the engine returned (0: empty)
    summary,      \* what llm_adapter.summarize did
    messages,     \* st.session_state.messages
    adapter,      \* what create_llm_adapter returned last
    asked,        \* the questions the page's handler was called with
    rendered,     \* what the page shows for each message of the log
    df,           \* the result table handed to auto_visualize
    chart         \* what auto_visualize drew for df

guardVars == <<raw_sql, sanitized, resanitized>>
selectorVars == <<question, fallback, generated, checked>>
vizVars == <<df, chart>>
sessionVars == <<env, pc, sql, executed, result_df, summary, messages,
                 adapter, asked, rendered, vizVars>>
vars == <<guardVars, selectorVars, sessionVars>>

-----------------------------------------------------------------------------
(* Characters *)

UpperAlpha == <<"A","B","C","D","E","F","G","H","I","J","K","L","M",
                "N","O","P","Q","R","S","T","U","V","W","X","Y","Z">>
LowerAlpha == <<"a","b","c","d","e","f","g","h","i","j","k","l","m",
                "n","o","p","q","r","s","t","u","v","w","x","y","z">>
Digits == {"0","1","2","3","4","5","6","7","8","9"}
Uppers == {UpperAlpha[i] : i \in 1..26}
Lowers == {LowerAlpha[i] : i \in 1..26}
\* CJK letters used by the keyword tables (alphanumeric for str.isalnum / \w)
Kanji == {"kita","minami","higashi","nishi","bu","tsuki","goto","betsu",
          "chi","iki","hou","ten","ho","no","uri","age",
          "ka","te","go","ri","cha","ya","ne","ru","o","n","ra","i"}

\* str.lower() / re.IGNORECASE on one character
LowerMap == [c \in Uppers |-> LowerAlpha[CHOOSE i \in 1..26 : UpperAlpha[i] = c]]
LowerChar(c) == IF c \in Uppers THEN LowerMap[c] ELSE c
UpperMap == [c \in Lowers |-> UpperAlpha[CHOOSE i \in 1..26 : LowerAlpha[i] = c]]
UpperChar(c) == IF c \in Lowers THEN UpperMap[c] ELSE c

\* \s and the characters str.strip() removes
IsSpace(c) == c \in {" ", "\n", "\t"}
\* \w
WordChars == Uppers \cup Lowers \cup Digits \cup Kanji \cup {"_"}
IsWordChar(c) == c \in WordChars
IsDigit(c) == c \in Digits

-----------------------------------------------------------------------------
(* str operations *)

Lower(s) == [i \in 1..Len(s) |-> LowerChar(s[i])]
Upper(s) == [i \in 1..Len(s) |-> UpperChar(s[i])]

\* s[i:] and s[:-n] (0-based i as in Python)
DropFirst(s, n) == SubSeq(s, n + 1, Len(s))
DropLast(s, n) == SubSeq(s, 1, Len(s) - n)

StartsWith(s, p) == Len(p) <= Len(s) /\ SubSeq(s, 1, Len(p)) = p
EndsWith(s, p) == Len(p) <= Len(s) /\ SubSeq(s, Len(s) - Len(p) + 1, Len(s)) = p

\* p in s
Contains(s, p) ==
    \E i \in 1..(Len(s) - Len(p) + 1) : SubSeq(s, i, i + Len(p) - 1) = p

\* str.strip()
FirstNonSpace(s) ==
    IF \A i \in 1..Len(s) : IsSpace(s[i]) THEN Len(s) + 1
    ELSE CHOOSE i \in 1..Len(s) :
           ~IsSpace(s[i]) /\ \A j \in 1..(i - 1) : IsSpace(s[j])
LastNonSpace(s) ==
    IF \A i \in 1..Len(s) : IsSpace(s[i]) THEN 0
    ELSE CHOOSE i \in 1..Len(s) :
           ~IsSpace(s[i]) /\ \A j \in (i + 1)..Len(s) : IsSpace(s[j])
Strip(s) == SubSeq(s, FirstNonSpace(s), LastNonSpace(s))

-----------------------------------------------------------------------------
(* re: the constructs the guard's patterns use *)

\* \b before position i (1..Len(s)+1)
WordBoundary(s, i) ==
    LET before == i > 1 /\ IsWordChar(s[i - 1])
        after == i <= Len(s) /\ IsWordChar(s[i])
    IN before # after

\* the literal w (lower case) at position i under re.IGNORECASE
MatchAt(s, i, w) ==
    /\ i >= 1
    /\ i + Len(w) - 1 <= Len(s)
    /\ \A k \in 1..Len(w) : LowerChar(s[i + k - 1]) = w[k]

\* the end of the run of characters satisfying the class that starts at i
\* (the position after it; i itself when the run is empty)
RECURSIVE SpaceRunEnd(_, _)
SpaceRunEnd(s, i) ==
    IF i <= Len(s) /\ IsSpace(s[i]) THEN SpaceRunEnd(s, i + 1) ELSE i
RECURSIVE DigitRunEnd(_, _)
DigitRunEnd(s, i) ==
    IF i <= Len(s) /\ IsDigit(s[i]) THEN DigitRunEnd(s, i + 1) ELSE i

\* re.search(r'\bW\b', s, re.IGNORECASE)
SearchWord(s, w) ==
    \E i \in 1..Len(s) :
        /\ MatchAt(s, i, w)
        /\ WordBoundary(s, i)
        /\ WordBoundary(s, i + Len(w))

\* re.search(r'\bA\s+B\b', s, re.IGNORECASE)
SearchTwoWords(s, a, b) ==
    \E i \in 1..Len(s) :
        /\ MatchAt(s, i, a)
        /\ WordBoundary(s, i)
        /\ LET j == SpaceRunEnd(s, i + Len(a))
           IN /\ j > i + Len(a)
              /\ MatchAt(s, j, b)
              /\ WordBoundary(s, j + Len(b))

\* re.search(r'\bW\s+\d+\b', s, re.IGNORECASE): \d+ is greedy and a shorter
\* run of digits ends between two digits, where \b cannot hold
SearchWordNumber(s, w) ==
    \E i \in 1..Len(s) :
        /\ MatchAt(s, i, w)
        /\ WordBoundary(s, i)
        /\ LET j == SpaceRunEnd(s, i + Len(w))
               k == DigitRunEnd(s, j)
           IN /\ j > i + Len(w)
              /\ k > j
              /\ WordBoundary(s, k)

\* re.match(r'^\s*W\b', s, re.IGNORECASE)
MatchLeadingWord(s, w) ==
    LET i == SpaceRunEnd(s, 1)
    IN MatchAt(s, i, w) /\ WordBoundary(s, i + Len(w))

-----------------------------------------------------------------------------
(* sql_guard.py *)

MAX_ROWS == 5000

\* str(n) for n >= 0, as the f-string formats MAX_ROWS
DigitChar == <<"0","1","2","3","4","5","6","7","8","9">>
RECURSIVE Decimal(_)
Decimal(n) ==
    IF n < 10 THEN <<DigitChar[n + 1]>>
    ELSE Decimal(n \div 10) \o <<DigitChar[(n % 10) + 1]>>

\* FORBIDDEN_TOKENS: r'\bFIRST\b', or r'\bFIRST\s+SECOND\b' when second is
\* not empty; matched with re.IGNORECASE, so the words are kept lower case
FORBIDDEN_TOKENS_NoDrop == <<
    [first |-> <<"a","t","t","a","c","h">>, second |-> <<>>],
    [first |-> <<"p","r","a","g","m","a">>, second |-> <<>>],
    [first |-> <<"c","o","p","y">>, second |-> <<>>],
    [first |-> <<"e","x","p","o","r","t">>, second |-> <<>>],
    [first |-> <<"i","n","s","e","r","t">>, second |-> <<>>],
    [first |-> <<"u","p","d","a","t","e">>, second |-> <<>>],
    [first |-> <<"d","e","l","e","t","e">>, second |-> <<>>],
    [first |-> <<"a","l","t","e","r">>, second |-> <<>>],
    [first |-> <<"c","r","e","a","t","e">>, second |-> <<"t","a","b","l","e">>] >>
FORBIDDEN_TOKENS == <<
    [first |-> <<"a","t","t","a","c","h">>, second |-> <<>>],
    [first |-> <<"p","r","a","g","m","a">>, second |-> <<>>],
    [first |-> <<"c","o","p","y">>, second |-> <<>>],
    [first |-> <<"e","x","p","o","r","t">>, second |-> <<>>],
    [first |-> <<"i","n","s","e","r","t">>, second |-> <<>>],
    [first |-> <<"u","p","d","a","t","e">>, second |-> <<>>],
    [first |-> <<"d","e","l","e","t","e">>, second |-> <<>>],
    [first |-> <<"d","r","o","p">>, second |-> <<>>],
    [first |-> <<"a","l","t","e","r">>, second |-> <<>>],
    [first |-> <<"c","r","e","a","t","e">>, second |-> <<"t","a","b","l","e">>] >>

\* re.search(token_pattern, sql_clean, re.IGNORECASE)
SearchSubstringPattern(s, pat) ==
    \E i \in 1..Len(s) :
        /\ MatchAt(s, i, pat.first)
        /\ pat.second # <<>> =>
             LET j == SpaceRunEnd(s, i + Len(pat.first))
             IN j > i + Len(pat.first) /\ MatchAt(s, j, pat.second)
SearchPattern(s, pat) ==
    IF pat.second = <<>> THEN SearchWord(s, pat.first)
    ELSE SearchTwoWords(s, pat.first, pat.second)

kw_select == <<"s","e","l","e","c","t">>
kw_limit == <<"l","i","m","i","t">>
kw_group == <<"g","r","o","u","p">>
kw_by == <<"b","y">>
FenceSql == <<"BQ","BQ","BQ","s","q","l">>
Fence == <<"BQ","BQ","BQ">>

\* What a call returned or raised
Returned(s) == [ok |-> TRUE, sql |-> s, err |-> "none"]
Raised(e) == [ok |-> FALSE, sql |-> <<>>, err |-> e]

\* validate_sql: the error it raises, "none" when it returns
validate_sql(s) ==
    LET sql_clean == Strip(s)
    IN IF sql_clean = <<>> THEN "Empty SQL query"
       ELSE IF ~MatchLeadingWord(sql_clean, kw_select)
            THEN "Only SELECT statements are allowed"
       ELSE IF \E t \in 1..Len(FORBIDDEN_TOKENS) :
                   SearchPattern(sql_clean, FORBIDDEN_TOKENS[t])
            THEN "Forbidden token detected"
       ELSE "none"

\* add_limit_if_needed
add_limit_keep_semicolon(s) ==
    LET sql_clean == Strip(s)
    IN IF SearchWordNumber(sql_clean, kw_limit) THEN sql_clean
       ELSE IF SearchTwoWords(sql_clean, kw_group, kw_by) THEN sql_clean
       ELSE sql_clean \o <<" ","L","I","M","I","T"," ">> \o Decimal(MAX_ROWS) \o <<";">>
add_limit_never(s) == Strip(s)
add_limit_if_needed(s) ==
    LET sql_clean == Strip(s)
    IN IF SearchWordNumber(sql_clean, kw_limit) THEN sql_clean
       ELSE IF SearchTwoWords(sql_clean, kw_group, kw_by) THEN sql_clean
       ELSE (IF EndsWith(sql_clean, <<";">>) THEN DropLast(sql_clean, 1)
             ELSE sql_clean)
            \o <<" ","L","I","M","I","T"," ">> \o Decimal(MAX_ROWS) \o <<";">>

\* sanitize_sql's cleanup (lines 123-128): strip, drop a leading fence with
\* the sql tag (6 characters), drop a trailing fence (3 characters), strip
Cleanup(s) ==
    LET a == Strip(s)
        b == IF StartsWith(a, FenceSql) THEN DropFirst(a, 6) ELSE a
        c == IF EndsWith(b, Fence) THEN DropLast(b, 3) ELSE b
    IN Strip(c)

\* sanitize_sql: every exception is re-raised as SQLValidationError
sanitize_sql(s) ==
    LET sql_clean == Cleanup(s)
        e == validate_sql(sql_clean)
    IN IF e # "none" THEN Raised(e)
       ELSE Returned(add_limit_if_needed(sql_clean))

-----------------------------------------------------------------------------
(* The completions given to sanitize_sql.  A completion is                 *)
(*   padding, an opening fence, a statement head, two clauses,             *)
(*   terminating semicolons, closing fences, padding.                      *)

MaxPad == 1       \* blanks around the completion
MaxFences == 2    \* closing fences
MaxSemis == 1     \* terminating semicolons

RECURSIVE Repeat(_, _)
Repeat(s, n) == IF n = 0 THEN <<>> ELSE s \o Repeat(s, n - 1)

OpenFences == { <<>>, FenceSql \o <<"\n">>, Fence \o <<"\n">>,
                Upper(FenceSql) \o <<"\n">> }
CloseFence == <<"\n">> \o Fence

Heads == { <<"s","e","l","e","c","t"," ","x">>, <<"S","E","L","E","C","T"," ","*">>, <<"s","e","l","e","c","t","e","d"," ","x">>, <<>> }

BaseClauses == { <<>>, <<" ","f","r","o","m"," ","s","a","l","e","s">>, <<" ","g","r","o","u","p"," ","b","y"," ","1">>, <<" ","G","R","O","U","P"," "," ","B","Y"," ","x">>,
                 <<" ","g","r","o","u","p","_","b","y"," ","x">>, <<" ","l","i","m","i","t"," ","5">>, <<" ","L","I","M","I","T"," ","5","0","0","0">>, <<" ","l","i","m","i","t"," ","a","l","l">>,
                 <<" ","l","i","m","i","t","(","5",")">> }

SampleClauses == { <<>>, <<" ","u","p","d","a","t","e","d","_","a","t">>, <<" ","U","P","D","A","T","E"," ","t">>, <<";"," ","d","r","o","p"," ","t","a","b","l","e"," ","x">> }

\* The keywords the guard is to refuse: one word, or two words in a row
Keywords == <<
    [first |-> <<"a","t","t","a","c","h">>, second |-> <<>>],
    [first |-> <<"p","r","a","g","m","a">>, second |-> <<>>],
    [first |-> <<"c","o","p","y">>, second |-> <<>>],
    [first |-> <<"e","x","p","o","r","t">>, second |-> <<>>],
    [first |-> <<"i","n","s","e","r","t">>, second |-> <<>>],
    [first |-> <<"u","p","d","a","t","e">>, second |-> <<>>],
    [first |-> <<"d","e","l","e","t","e">>, second |-> <<>>],
    [first |-> <<"d","r","o","p">>, second |-> <<>>],
    [first |-> <<"a","l","t","e","r">>, second |-> <<>>],
    [first |-> <<"c","r","e","a","t","e">>, second |-> <<"t","a","b","l","e">>] >>

\* The forms a forbidden keyword is written in: as a token of its own in
\* lower, upper and mixed case and with a line break between its words, and
\* as a part of a longer identifier
Capitalize(s) == IF s = <<>> THEN s ELSE <<UpperChar(s[1])>> \o Tail(s)
KeywordForms(pat) ==
    LET two == pat.second # <<>>
        plain == IF two THEN pat.first \o <<" ">> \o pat.second ELSE pat.first
    IN [ lower |-> plain,
         upper |-> Upper(plain),
         mixed |-> IF two THEN Capitalize(pat.first) \o <<"\n", " ">> \o Upper(pat.second)
                   ELSE Capitalize(plain),
         suffixed |-> plain \o <<"d","_","a","t">>,
         prefixed |-> <<"x","_">> \o plain,
         joined |-> IF two THEN pat.first \o <<"_">> \o pat.second
                    ELSE pat.first \o <<"s">> ]
WholeForms == {"lower", "upper", "mixed"}
PartForms == {"suffixed", "prefixed", "joined"}

Separators == { <<" ">>, <<";">>, <<";", " ">> }

GuardShapes ==
    { Repeat(<<" ">>, lead) \o open \o head \o c1 \o c2 \o Repeat(<<";">>, semis)
        \o Repeat(CloseFence, closes) \o Repeat(<<" ">>, trail) :
      <<lead, trail>> \in { pt \in (0..MaxPad) \X (0..MaxPad) : pt[1] + pt[2] <= MaxPad },
      open \in OpenFences, head \in Heads, c1 \in BaseClauses,
      c2 \in SampleClauses, semis \in 0..MaxSemis, closes \in 0..MaxFences }

KeywordShapes ==
    { open \o head \o sep \o KeywordForms(Keywords[k])[form] \o c1
        \o (IF open = <<>> THEN <<>> ELSE CloseFence) :
      open \in { <<>>, FenceSql \o <<"\n">> }, head \in Heads, sep \in Separators,
      k \in 1..Len(Keywords), form \in WholeForms \cup PartForms,
      c1 \in { <<>>, <<" ","f","r","o","m"," ","s","a","l","e","s">> } }

Completions == GuardShapes \cup KeywordShapes

-----------------------------------------------------------------------------
(* The guard applied to a completion, and again to its own output *)

Pending == [ok |-> FALSE, sql |-> <<>>, err |-> "pending"]

\* no page is running
NoEnv == [LLM_PROVIDER |-> <<>>, OPENAI_API_KEY |-> <<>>,
          ANTHROPIC_API_KEY |-> <<>>, openai |-> FALSE, anthropic |-> FALSE]
\* no table handed to auto_visualize, nothing drawn
NoTable == <<>>
NoChart == [kind |-> "pending", x |-> "none", y |-> "none", color |-> "none",
            reason |-> "none", values |-> <<>>]

SessionIdle ==
    /\ env = NoEnv /\ pc = "none" /\ sql = <<>> /\ executed = <<>>
    /\ result_df = 0 /\ summary = Pending /\ messages = <<>>
    /\ adapter = "none" /\ asked = 0 /\ rendered = <<>>
    /\ df = NoTable /\ chart = NoChart

GuardInit ==
    /\ raw_sql \in Completions
    /\ sanitized = Pending
    /\ resanitized = Pending
    /\ question = <<>> /\ fallback = Pending /\ generated = Pending
    /\ checked = Pending
    /\ SessionIdle

Sanitize ==
    /\ sanitized = Pending
    /\ sanitized' = sanitize_sql(raw_sql)
    /\ UNCHANGED <<raw_sql, resanitized, selectorVars, sessionVars>>

Resanitize ==
    /\ sanitized.ok
    /\ resanitized = Pending
    /\ resanitized' = sanitize_sql(sanitized.sql)
    /\ UNCHANGED <<raw_sql, sanitized, selectorVars, sessionVars>>

GuardNext == Sanitize \/ Resanitize

SpecGuard == GuardInit /\ [][GuardNext]_vars

-----------------------------------------------------------------------------
(* The vocabulary of the guard's properties: tokens.  A token is a maximal *)
(* run of word characters; letter case is ignored.                         *)

RECURSIVE WordRunEnd(_, _)
WordRunEnd(s, i) ==
    IF i <= Len(s) /\ IsWordChar(s[i]) THEN WordRunEnd(s, i + 1) ELSE i

TokenStarts(s) ==
    { i \in 1..Len(s) : IsWordChar(s[i]) /\ (i = 1 \/ ~IsWordChar(s[i - 1])) }
TokenAt(s, i) == Lower(SubSeq(s, i, WordRunEnd(s, i) - 1))

\* the keyword is a token of s (its two words are two tokens with only
\* blanks between them)
HasKeyword(s, kw) ==
    \E i \in TokenStarts(s) :
        /\ TokenAt(s, i) = kw.first
        /\ kw.second # <<>> =>
             LET e == WordRunEnd(s, i)
                 j == SpaceRunEnd(s, e)
             IN j > e /\ j \in TokenStarts(s) /\ TokenAt(s, j) = kw.second

\* the keyword's letters occur in s, as a token or inside one
HasKeywordText(s, kw) ==
    \E i \in 1..Len(s) :
        /\ MatchAt(s, i, kw.first)
        /\ kw.second # <<>> =>
             LET j == SpaceRunEnd(s, i + Len(kw.first))
             IN j > i + Len(kw.first) /\ MatchAt(s, j, kw.second)

HasForbiddenKeyword(s) == \E k \in 1..Len(Keywords) : HasKeyword(s, Keywords[k])
HasForbiddenText(s) == \E k \in 1..Len(Keywords) : HasKeywordText(s, Keywords[k])

Limit == [first |-> <<"l","i","m","i","t">>, second |-> <<>>]
GroupBy == [first |-> <<"g","r","o","u","p">>, second |-> <<"b","y">>]
Drop == [first |-> <<"d","r","o","p">>, second |-> <<>>]

HasFence(s) == \E i \in 1..Len(s) : s[i] = "BQ"
Count(s, c) == Cardinality({ i \in 1..Len(s) : s[i] = c })

\* the statement begins with SELECT, blanks before it ignored
BeginsWithSelect(s) ==
    LET i == SpaceRunEnd(s, 1)
    IN i \in TokenStarts(s) /\ TokenAt(s, i) = <<"s","e","l","e","c","t">>

\* the last character of s that is neither a blank nor fence markup is ';'
Terminated(s) ==
    LET last == { i \in 1..Len(s) : /\ ~IsSpace(s[i]) /\ s[i] # "BQ"
                                    /\ \A j \in (i + 1)..Len(s) :
                                          IsSpace(s[j]) \/ s[j] = "BQ" }
    IN \E i \in last : s[i] = ";"

Done == sanitized # Pending
Accepted == sanitized.ok

-----------------------------------------------------------------------------
(* C1: a completion that holds a forbidden keyword as a token, in any      *)
(* letter case and at any position, makes sanitize_sql raise the           *)
(* validation error and return no query.                                   *)
C1_ForbiddenKeywordRaises ==
    (Done /\ HasForbiddenKeyword(raw_sql)) =>
        (~sanitized.ok /\ sanitized.sql = <<>> /\ sanitized.err # "none")

\* DROP in mixed case after the ';' that ends a valid SELECT
C1_Witness ==
    /\ Done
    /\ BeginsWithSelect(raw_sql)
    /\ Contains(raw_sql, <<";">> \o <<"D","r","o","p">>)
    /\ sanitized.err = "Forbidden token detected"

(* C4: the guard is idempotent: applied to an output of its own it         *)
(* succeeds and returns that output.                                       *)
C4_Idempotent ==
    (resanitized # Pending) =>
        (resanitized.ok /\ resanitized.sql = sanitized.sql)

(* C5, as claimed: an accepted statement with neither GROUP BY nor LIMIT   *)
(* comes back ending with LIMIT 5000, the cap before the terminating ';'   *)
(* or, when the statement has none, at the end of the string.              *)
\* (the statement is bare or between one pair of fences: no fence follows
\* another)
NeedsCap(s) ==
    /\ ~HasKeyword(s, Limit) /\ ~HasKeyword(s, GroupBy)
    /\ ~Contains(s, Fence \o <<"\n">> \o Fence)
CapText == <<" ","L","I","M","I","T"," ","5","0","0","0">>
C5_CapAtEndOrBeforeSemicolon ==
    (Done /\ Accepted /\ NeedsCap(raw_sql)) =>
        IF Terminated(raw_sql)
        THEN EndsWith(sanitized.sql, CapText \o <<";">>)
        ELSE EndsWith(sanitized.sql, CapText)

(* C5, amended: an accepted statement with neither GROUP BY nor LIMIT      *)
(* comes back ending with LIMIT 5000 and a ';': the cap takes the place of *)
(* the terminating ';', or is put at the end when there is none, and a ';' *)
(* is always written after it.                                             *)
C5_CapThenSemicolon ==
    (Done /\ Accepted /\ NeedsCap(raw_sql)) =>
        /\ EndsWith(sanitized.sql, CapText \o <<";">>)
        /\ Count(sanitized.sql, ";") =
             IF Terminated(raw_sql) THEN Count(raw_sql, ";")
             ELSE Count(raw_sql, ";") + 1

C5_Witness ==
    /\ Done /\ Accepted /\ NeedsCap(raw_sql)
    /\ Terminated(raw_sql)
    /\ EndsWith(sanitized.sql, CapText \o <<";">>)

(* C6: an accepted statement that has a GROUP BY or already has a LIMIT    *)
(* clause, of any form, gets no LIMIT appended: it comes back unchanged    *)
(* but for the blanks and the fence markup stripped around it.             *)
C6_CappedOrGroupedUnchanged ==
    (Done /\ Accepted /\ (HasKeyword(raw_sql, GroupBy) \/ HasKeyword(raw_sql, Limit))) =>
        /\ Contains(raw_sql, sanitized.sql)
        /\ ~EndsWith(sanitized.sql, CapText \o <<";">>)
             \/ EndsWith(Strip(raw_sql), CapText \o <<";">>)

(* C7: a statement that begins with SELECT and holds forbidden keywords    *)
(* only inside longer identifiers, with nothing else wrong, is accepted.   *)
C7_KeywordInsideIdentifierAccepted ==
    (/\ Done
     /\ ~HasFence(raw_sql)
     /\ BeginsWithSelect(raw_sql)
     /\ HasForbiddenText(raw_sql)
     /\ ~HasForbiddenKeyword(raw_sql)) => Accepted

C7_Witness ==
    /\ Done /\ Accepted
    /\ Contains(raw_sql, <<"u","p","d","a","t","e","d","_","a","t">>)
    /\ HasForbiddenText(raw_sql)
    /\ ~HasForbiddenKeyword(raw_sql)

(* C8: a valid SELECT statement between an opening fence, with or without  *)
(* a language tag (sql, SQL), and a closing fence is accepted, and the     *)
(* query returned holds no fence markup.                                   *)
FencedStatement(s, open) ==
    SubSeq(s, Len(open) + 2, Len(s) - Len(CloseFence))
IsFencedBy(s, open) ==
    /\ StartsWith(s, open \o <<"\n">>)
    /\ EndsWith(s, CloseFence)
    /\ Len(s) > Len(open) + 1 + Len(CloseFence)
    /\ LET body == FencedStatement(s, open)
       IN /\ ~HasFence(body)
          /\ BeginsWithSelect(body)
          /\ ~HasForbiddenKeyword(body)
C8_FencedStatementAccepted ==
    (Done /\ \E open \in { Fence, FenceSql, Upper(FenceSql) } : IsFencedBy(raw_sql, open)) =>
        (Accepted /\ ~HasFence(sanitized.sql))

-----------------------------------------------------------------------------
(* sql_guard.py: the fallback selector *)

\* FALLBACK_QUERIES
FALLBACK_monthly_category ==
    <<"\n"," "," "," "," "," "," "," "," ","s","e","l","e","c","t"," ","m",
      "o","n","t","h",","," ","c","a","t","e","g","o","r","y",","," ","s","u",
      "m","(","r","e","v","e","n","u","e",")"," ","a","s"," ","t","o","t","a",
      "l","_","r","e","v","e","n","u","e","\n"," "," "," "," "," "," "," ",
      " ","f","r","o","m"," ","s","a","l","e","s","_","w","i","t","h","_","m",
      "o","n","t","h","\n"," "," "," "," "," "," "," "," ","g","r","o","u",
      "p"," ","b","y"," ","1",",","2","\n"," "," "," "," "," "," "," "," ",
      "o","r","d","e","r"," ","b","y"," ","1",",","2",";","\n"," "," "," "," ">>
FALLBACK_channel_sales ==
    <<"\n"," "," "," "," "," "," "," "," ","s","e","l","e","c","t"," ","s",
      "a","l","e","s","_","c","h","a","n","n","e","l",","," ","s","u","m","(",
      "r","e","v","e","n","u","e",")"," ","a","s"," ","t","o","t","a","l","_",
      "r","e","v","e","n","u","e","\n"," "," "," "," "," "," "," "," ","f",
      "r","o","m"," ","s","a","l","e","s","\n"," "," "," "," "," "," "," ",
      " ","g","r","o","u","p"," ","b","y"," ","1","\n"," "," "," "," "," ",
      " "," "," ","o","r","d","e","r"," ","b","y"," ","t","o","t","a","l","_",
      "r","e","v","e","n","u","e"," ","d","e","s","c",";","\n"," "," "," "," ">>
FALLBACK_region_sales_NoGroupBy ==
    <<"\n"," "," "," "," "," "," "," "," ","s","e","l","e","c","t"," ","r",
      "e","g","i","o","n",","," ","s","u","m","(","r","e","v","e","n","u","e",
      ")"," ","a","s"," ","t","o","t","a","l","_","r","e","v","e","n","u","e",
      "\n"," "," "," "," "," "," "," "," ","f","r","o","m"," ","s","a","l",
      "e","s","\n"," "," "," "," "," "," "," "," ","o","r","d","e","r"," ",
      "b","y"," ","t","o","t","a","l","_","r","e","v","e","n","u","e"," ","d",
      "e","s","c",";","\n"," "," "," "," ">>
FALLBACK_region_sales ==
    <<"\n"," "," "," "," "," "," "," "," ","s","e","l","e","c","t"," ","r",
      "e","g","i","o","n",","," ","s","u","m","(","r","e","v","e","n","u","e",
      ")"," ","a","s"," ","t","o","t","a","l","_","r","e","v","e","n","u","e",
      "\n"," "," "," "," "," "," "," "," ","f","r","o","m"," ","s","a","l",
      "e","s","\n"," "," "," "," "," "," "," "," ","g","r","o","u","p"," ",
      "b","y"," ","1","\n"," "," "," "," "," "," "," "," ","o","r","d","e",
      "r"," ","b","y"," ","t","o","t","a","l","_","r","e","v","e","n","u","e",
      " ","d","e","s","c",";","\n"," "," "," "," ">>

\* the query get_fallback_query formats for one region (lines 174-180)
RegionQuery(region_name) ==
    <<"\n"," "," "," "," "," "," "," "," "," "," "," "," "," "," "," "," ",
      "s","e","l","e","c","t"," ","r","e","g","i","o","n",","," ","s","u","m",
      "(","r","e","v","e","n","u","e",")"," ","a","s"," ","t","o","t","a","l",
      "_","r","e","v","e","n","u","e","\n"," "," "," "," "," "," "," "," ",
      " "," "," "," "," "," "," "," ","f","r","o","m"," ","s","a","l","e","s",
      "\n"," "," "," "," "," "," "," "," "," "," "," "," "," "," "," "," ",
      "w","h","e","r","e"," ","r","e","g","i","o","n"," ","="," ","'">>
    \o region_name \o
    <<"'","\n"," "," "," "," "," "," "," "," "," "," "," "," "," "," "," ",
      " ","g","r","o","u","p"," ","b","y"," ","1","\n"," "," "," "," "," ",
      " "," "," "," "," "," "," "," "," "," "," ","o","r","d","e","r"," ","b",
      "y"," ","t","o","t","a","l","_","r","e","v","e","n","u","e"," ","d","e",
      "s","c",";","\n"," "," "," "," "," "," "," "," "," "," "," "," ">>

\* the query it returns for a category question (lines 197-202)
CategoryQuery ==
    <<"\n"," "," "," "," "," "," "," "," "," "," "," "," ","s","e","l","e",
      "c","t"," ","c","a","t","e","g","o","r","y",","," ","s","u","m","(","r",
      "e","v","e","n","u","e",")"," ","a","s"," ","t","o","t","a","l","_","r",
      "e","v","e","n","u","e","\n"," "," "," "," "," "," "," "," "," "," ",
      " "," ","f","r","o","m"," ","s","a","l","e","s","\n"," "," "," "," ",
      " "," "," "," "," "," "," "," ","g","r","o","u","p"," ","b","y"," ","1",
      "\n"," "," "," "," "," "," "," "," "," "," "," "," ","o","r","d","e",
      "r"," ","b","y"," ","t","o","t","a","l","_","r","e","v","e","n","u","e",
      " ","d","e","s","c",";","\n"," "," "," "," "," "," "," "," ">>

\* region_keywords with the regions in alphabetical order
region_keywords_Alphabetical ==
    << [keyword |-> <<"higashi","bu">>, region |-> <<"E","a","s","t">>],
       [keyword |-> <<"e","a","s","t">>, region |-> <<"E","a","s","t">>],
       [keyword |-> <<"higashi">>, region |-> <<"E","a","s","t">>],
       [keyword |-> <<"kita","bu">>, region |-> <<"N","o","r","t","h">>],
       [keyword |-> <<"n","o","r","t","h">>, region |-> <<"N","o","r","t","h">>],
       [keyword |-> <<"kita">>, region |-> <<"N","o","r","t","h">>],
       [keyword |-> <<"minami","bu">>, region |-> <<"S","o","u","t","h">>],
       [keyword |-> <<"s","o","u","t","h">>, region |-> <<"S","o","u","t","h">>],
       [keyword |-> <<"minami">>, region |-> <<"S","o","u","t","h">>],
       [keyword |-> <<"nishi","bu">>, region |-> <<"W","e","s","t">>],
       [keyword |-> <<"w","e","s","t">>, region |-> <<"W","e","s","t">>],
       [keyword |-> <<"nishi">>, region |-> <<"W","e","s","t">>] >>

\* region_keywords, in the dict's order
region_keywords ==
    << [keyword |-> <<"kita","bu">>, region |-> <<"N","o","r","t","h">>],
       [keyword |-> <<"n","o","r","t","h">>, region |-> <<"N","o","r","t","h">>],
       [keyword |-> <<"kita">>, region |-> <<"N","o","r","t","h">>],
       [keyword |-> <<"minami","bu">>, region |-> <<"S","o","u","t","h">>],
       [keyword |-> <<"s","o","u","t","h">>, region |-> <<"S","o","u","t","h">>],
       [keyword |-> <<"minami">>, region |-> <<"S","o","u","t","h">>],
       [keyword |-> <<"higashi","bu">>, region |-> <<"E","a","s","t">>],
       [keyword |-> <<"e","a","s","t">>, region |-> <<"E","a","s","t">>],
       [keyword |-> <<"higashi">>, region |-> <<"E","a","s","t">>],
       [keyword |-> <<"nishi","bu">>, region |-> <<"W","e","s","t">>],
       [keyword |-> <<"w","e","s","t">>, region |-> <<"W","e","s","t">>],
       [keyword |-> <<"nishi">>, region |-> <<"W","e","s","t">>] >>

\* any(keyword in question_lower for keyword in keywords)
AnyIn(keywords, text) ==
    \E k \in 1..Len(keywords) : Contains(text, keywords[k])

\* the loop over a region table: the region of the first keyword, in the
\* table's order, that the text holds
AnyRegion(table, text) ==
    \E k \in 1..Len(table) : Contains(text, table[k].keyword)
FirstRegion(table, text) ==
    LET hits == { k \in 1..Len(table) : Contains(text, table[k].keyword) }
        first == CHOOSE k \in hits : \A j \in hits : k <= j
    IN table[first].region

FallbackMonth == << <<"tsuki">>,
                    <<"m","o","n","t","h">>,
                    <<"tsuki","goto">>,
                    <<"tsuki","betsu">>,
                    <<"m","o","n","t","h","l","y">> >>
FallbackCategory == << <<"ka","te","go","ri">>,
                       <<"c","a","t","e","g","o","r","y">>,
                       <<"c","a","t","e","g","o","r","i","e","s">> >>
FallbackChannel == << <<"cha","ya","ne","ru">>,
                      <<"c","h","a","n","n","e","l">>,
                      <<"c","h","a","n","n","e","l","s">>,
                      <<"s","a","l","e","s","_","c","h","a","n","n","e","l">>,
                      <<"o","n","ra","i","n">>,
                      <<"o","n","l","i","n","e">>,
                      <<"ten","ho">>,
                      <<"s","t","o","r","e">> >>
FallbackRegion == << <<"chi","iki">>,
                     <<"r","e","g","i","o","n">>,
                     <<"r","e","g","i","o","n","s">>,
                     <<"chi","hou">> >>
FallbackCategoryNames == << <<"ka","te","go","ri">>,
                            <<"c","a","t","e","g","o","r","y">>,
                            <<"c","a","t","e","g","o","r","i","e","s">>,
                            <<"e","l","e","c","t","r","o","n","i","c","s">>,
                            <<"c","l","o","t","h","i","n","g">>,
                            <<"b","e","a","u","t","y">>,
                            <<"g","r","o","c","e","r","i","e","s">> >>

get_fallback_query_DefaultNone(q) ==
    LET question_lower == Lower(q)
    IN IF AnyRegion(region_keywords, question_lower)
       THEN RegionQuery(FirstRegion(region_keywords, question_lower))
       ELSE IF AnyIn(FallbackMonth, question_lower)
               /\ AnyIn(FallbackCategory, question_lower)
            THEN FALLBACK_monthly_category
       ELSE IF AnyIn(FallbackChannel, question_lower)
            THEN FALLBACK_channel_sales
       ELSE IF AnyIn(FallbackRegion, question_lower)
            THEN FALLBACK_region_sales
       ELSE IF AnyIn(FallbackCategoryNames, question_lower)
            THEN CategoryQuery
       ELSE <<>>
get_fallback_query_ChannelFirst(q) ==
    LET question_lower == Lower(q)
    IN IF AnyRegion(region_keywords, question_lower)
       THEN RegionQuery(FirstRegion(region_keywords, question_lower))
       ELSE IF AnyIn(FallbackChannel, question_lower)
            THEN FALLBACK_channel_sales
       ELSE IF AnyIn(FallbackMonth, question_lower)
               /\ AnyIn(FallbackCategory, question_lower)
            THEN FALLBACK_monthly_category
       ELSE IF AnyIn(FallbackRegion, question_lower)
            THEN FALLBACK_region_sales
       ELSE IF AnyIn(FallbackCategoryNames, question_lower)
            THEN CategoryQuery
       ELSE FALLBACK_region_sales
get_fallback_query(q) ==
    LET question_lower == Lower(q)
    IN IF AnyRegion(region_keywords, question_lower)
       THEN RegionQuery(FirstRegion(region_keywords, question_lower))
       ELSE IF AnyIn(FallbackMonth, question_lower)
               /\ AnyIn(FallbackCategory, question_lower)
            THEN FALLBACK_monthly_category
       ELSE IF AnyIn(FallbackChannel, question_lower)
            THEN FALLBACK_channel_sales
       ELSE IF AnyIn(FallbackRegion, question_lower)
            THEN FALLBACK_region_sales
       ELSE IF AnyIn(FallbackCategoryNames, question_lower)
            THEN CategoryQuery
       ELSE FALLBACK_region_sales

-----------------------------------------------------------------------------
(* llm_adapter.py: MockLLMAdapter.generate_sql *)

\* region_map without the abbreviated forms
region_map_NoShort ==
    << [keyword |-> <<"kita","bu">>, region |-> <<"N","o","r","t","h">>],
       [keyword |-> <<"n","o","r","t","h">>, region |-> <<"N","o","r","t","h">>],
       [keyword |-> <<"minami","bu">>, region |-> <<"S","o","u","t","h">>],
       [keyword |-> <<"s","o","u","t","h">>, region |-> <<"S","o","u","t","h">>],
       [keyword |-> <<"higashi","bu">>, region |-> <<"E","a","s","t">>],
       [keyword |-> <<"e","a","s","t">>, region |-> <<"E","a","s","t">>],
       [keyword |-> <<"nishi","bu">>, region |-> <<"W","e","s","t">>],
       [keyword |-> <<"w","e","s","t">>, region |-> <<"W","e","s","t">>] >>
region_map ==
    << [keyword |-> <<"kita","bu">>, region |-> <<"N","o","r","t","h">>],
       [keyword |-> <<"kita">>, region |-> <<"N","o","r","t","h">>],
       [keyword |-> <<"n","o","r","t","h">>, region |-> <<"N","o","r","t","h">>],
       [keyword |-> <<"minami","bu">>, region |-> <<"S","o","u","t","h">>],
       [keyword |-> <<"minami">>, region |-> <<"S","o","u","t","h">>],
       [keyword |-> <<"s","o","u","t","h">>, region |-> <<"S","o","u","t","h">>],
       [keyword |-> <<"higashi","bu">>, region |-> <<"E","a","s","t">>],
       [keyword |-> <<"higashi">>, region |-> <<"E","a","s","t">>],
       [keyword |-> <<"e","a","s","t">>, region |-> <<"E","a","s","t">>],
       [keyword |-> <<"nishi","bu">>, region |-> <<"W","e","s","t">>],
       [keyword |-> <<"nishi">>, region |-> <<"W","e","s","t">>],
       [keyword |-> <<"w","e","s","t">>, region |-> <<"W","e","s","t">>] >>

MockRegionQuery(region) ==
    <<"S","E","L","E","C","T"," ","r","e","g","i","o","n",","," ","S","U","M",
      "(","r","e","v","e","n","u","e",")"," ","a","s"," ","t","o","t","a","l",
      "_","r","e","v","e","n","u","e"," ","F","R","O","M"," ","s","a","l","e",
      "s"," ","W","H","E","R","E"," ","r","e","g","i","o","n"," ","="," ","'">>
    \o region \o
    <<"'"," ","G","R","O","U","P"," ","B","Y"," ","1"," ","O","R","D","E","R",
      " ","B","Y"," ","t","o","t","a","l","_","r","e","v","e","n","u","e"," ",
      "D","E","S","C">>
MockMonthlyCategoryQuery ==
    <<"S","E","L","E","C","T"," ","m","o","n","t","h",","," ","c","a","t","e",
      "g","o","r","y",","," ","S","U","M","(","r","e","v","e","n","u","e",")",
      " ","a","s"," ","t","o","t","a","l","_","r","e","v","e","n","u","e"," ",
      "F","R","O","M"," ","s","a","l","e","s","_","w","i","t","h","_","m","o",
      "n","t","h"," ","G","R","O","U","P"," ","B","Y"," ","1",",","2"," ","O",
      "R","D","E","R"," ","B","Y"," ","1",",","2">>
MockChannelQuery ==
    <<"S","E","L","E","C","T"," ","s","a","l","e","s","_","c","h","a","n","n",
      "e","l",","," ","S","U","M","(","r","e","v","e","n","u","e",")"," ","a",
      "s"," ","t","o","t","a","l","_","r","e","v","e","n","u","e"," ","F","R",
      "O","M"," ","s","a","l","e","s"," ","G","R","O","U","P"," ","B","Y"," ",
      "1"," ","O","R","D","E","R"," ","B","Y"," ","t","o","t","a","l","_","r",
      "e","v","e","n","u","e"," ","D","E","S","C">>
MockCategoryQuery ==
    <<"S","E","L","E","C","T"," ","c","a","t","e","g","o","r","y",","," ","S",
      "U","M","(","r","e","v","e","n","u","e",")"," ","a","s"," ","t","o","t",
      "a","l","_","r","e","v","e","n","u","e"," ","F","R","O","M"," ","s","a",
      "l","e","s"," ","G","R","O","U","P"," ","B","Y"," ","1"," ","O","R","D",
      "E","R"," ","B","Y"," ","t","o","t","a","l","_","r","e","v","e","n","u",
      "e"," ","D","E","S","C">>
MockRegionSummaryQuery ==
    <<"S","E","L","E","C","T"," ","r","e","g","i","o","n",","," ","S","U","M",
      "(","r","e","v","e","n","u","e",")"," ","a","s"," ","t","o","t","a","l",
      "_","r","e","v","e","n","u","e"," ","F","R","O","M"," ","s","a","l","e",
      "s"," ","G","R","O","U","P"," ","B","Y"," ","1"," ","O","R","D","E","R",
      " ","B","Y"," ","t","o","t","a","l","_","r","e","v","e","n","u","e"," ",
      "D","E","S","C">>

MockMonth == << <<"tsuki">>,
                <<"m","o","n","t","h">>,
                <<"tsuki","goto">>,
                <<"tsuki","betsu">> >>
MockCategory == << <<"ka","te","go","ri">>,
                   <<"c","a","t","e","g","o","r","y">> >>
MockChannel == << <<"cha","ya","ne","ru">>,
                  <<"c","h","a","n","n","e","l">>,
                  <<"o","n","ra","i","n">>,
                  <<"o","n","l","i","n","e">>,
                  <<"ten","ho">>,
                  <<"s","t","o","r","e">> >>
MockCategoryNames == << <<"ka","te","go","ri">>,
                        <<"c","a","t","e","g","o","r","y">>,
                        <<"e","l","e","c","t","r","o","n","i","c","s">>,
                        <<"c","l","o","t","h","i","n","g">> >>
MockRegion == << <<"chi","iki">>,
                 <<"r","e","g","i","o","n">>,
                 <<"chi","hou">> >>

Mock_generate_sql(q) ==
    LET question_lower == Lower(q)
    IN IF AnyRegion(region_map, question_lower)
       THEN MockRegionQuery(FirstRegion(region_map, question_lower))
       ELSE IF AnyIn(MockMonth, question_lower) /\ AnyIn(MockCategory, question_lower)
            THEN MockMonthlyCategoryQuery
       ELSE IF AnyIn(MockChannel, question_lower)
            THEN MockChannelQuery
       ELSE IF AnyIn(MockCategoryNames, question_lower)
            THEN MockCategoryQuery
       ELSE IF AnyIn(MockRegion, question_lower)
            THEN MockRegionSummaryQuery
       ELSE MockRegionSummaryQuery

-----------------------------------------------------------------------------
(* The questions given to the selector and to the deterministic adapter:   *)
(* up to MaxWords words in a row, drawn from the keyword tables, with      *)
(* filler text, an upper-case keyword and a word that hides a keyword.     *)

MaxWords == 2

QuestionWords ==
    { <<"kita","bu">>, <<"n","o","r","t","h">>, <<"minami">>, <<"s","o","u","t","h">>, <<"higashi">>, <<"e","a","s","t">>, <<"nishi","bu">>, <<"w","e","s","t">>,
      <<"tsuki","betsu">>, <<"m","o","n","t","h">>, <<"m","o","n","t","h","l","y">>,
      <<"ka","te","go","ri">>, <<"c","a","t","e","g","o","r","y">>, <<"c","a","t","e","g","o","r","i","e","s">>, <<"e","l","e","c","t","r","o","n","i","c","s">>, <<"b","e","a","u","t","y">>,
      <<"cha","ya","ne","ru">>, <<"c","h","a","n","n","e","l">>, <<"o","n","l","i","n","e">>, <<"ten","ho">>,
      <<"chi","iki">>, <<"r","e","g","i","o","n">>, <<"chi","hou">>,
      <<"no","uri","age">>, <<"N","O","R","T","H">>, <<"l","e","a","s","t">>, <<" ">>,
      <<"tsuki","betsu","ka","te","go","ri">>, <<"S","o","u","t","h">> }

RECURSIVE Phrases(_)
Phrases(n) ==
    IF n = 0 THEN { <<>> }
    ELSE LET shorter == Phrases(n - 1)
         IN shorter \cup { p \o word : p \in shorter, word \in QuestionWords }
\* and the question of the region test page
Questions ==
    Phrases(MaxWords) \cup { <<"kita","bu","chi","iki","no","uri","age">> }

SelectorInit ==
    /\ question \in Questions
    /\ fallback = Pending
    /\ generated = Pending
    /\ checked = Pending
    /\ raw_sql = <<>> /\ sanitized = Pending /\ resanitized = Pending
    /\ SessionIdle

\* get_fallback_query(question)
SelectFallback ==
    /\ fallback = Pending
    /\ fallback' = Returned(get_fallback_query(question))
    /\ UNCHANGED <<question, generated, checked, guardVars, sessionVars>>

\* MockLLMAdapter().generate_sql(question, schema)
GenerateMock ==
    /\ generated = Pending
    /\ generated' = Returned(Mock_generate_sql(question))
    /\ UNCHANGED <<question, fallback, checked, guardVars, sessionVars>>

\* sanitize_sql on each of the two queries
CheckBoth ==
    /\ fallback # Pending /\ generated # Pending
    /\ checked = Pending
    /\ checked' = [fallback |-> sanitize_sql(fallback.sql),
                   generated |-> sanitize_sql(generated.sql)]
    /\ UNCHANGED <<question, fallback, generated, guardVars, sessionVars>>

SelectorNext == SelectFallback \/ GenerateMock \/ CheckBoth

SpecSelector == SelectorInit /\ [][SelectorNext]_vars

Regions == { <<"N","o","r","t","h">>, <<"S","o","u","t","h">>, <<"E","a","s","t">>, <<"W","e","s","t">> }

(* C9: the fallback selector is total: for every question, the empty one   *)
(* and one with no known keyword included, it returns a query of its       *)
(* library: one region's filter, month by category, channel, category,     *)
(* region.                                                                 *)
FallbackLibrary ==
    { RegionQuery(r) : r \in Regions }
        \cup { FALLBACK_monthly_category, FALLBACK_channel_sales,
               CategoryQuery, FALLBACK_region_sales }
C9_FallbackTotal ==
    (fallback # Pending) => (fallback.ok /\ fallback.sql \in FallbackLibrary)

\* the empty question and a question with no keyword both get the region
\* summary
C9_Witness ==
    /\ question \in { <<>>, <<"no","uri","age">> }
    /\ fallback = Returned(FALLBACK_region_sales)

(* C10: every query of the fallback selector and of the deterministic      *)
(* adapter is accepted by the guard and comes back as it was but for the   *)
(* blanks around it, with no LIMIT appended.                               *)
C10_DeterministicQueriesPass ==
    (checked # Pending) =>
        /\ checked.fallback.ok
        /\ checked.fallback.sql = Strip(fallback.sql)
        /\ ~HasKeyword(checked.fallback.sql, Limit)
        /\ checked.generated.ok
        /\ checked.generated.sql = Strip(generated.sql)
        /\ ~HasKeyword(checked.generated.sql, Limit)

C10_Witness ==
    /\ checked # Pending
    /\ question = <<"cha","ya","ne","ru">> \o <<"no","uri","age">>
    /\ fallback.sql = FALLBACK_channel_sales
    /\ generated.sql = MockChannelQuery
    /\ checked.generated.sql = MockChannelQuery

-----------------------------------------------------------------------------
(* The words of a question, as the selector's policy names them *)

Directions ==
    { [region |-> <<"N","o","r","t","h">>,
       synonyms |-> { <<"kita","bu">>, <<"kita">>, <<"n","o","r","t","h">> }],
      [region |-> <<"S","o","u","t","h">>,
       synonyms |-> { <<"minami","bu">>, <<"minami">>, <<"s","o","u","t","h">> }],
      [region |-> <<"E","a","s","t">>,
       synonyms |-> { <<"higashi","bu">>, <<"higashi">>, <<"e","a","s","t">> }],
      [region |-> <<"W","e","s","t">>,
       synonyms |-> { <<"nishi","bu">>, <<"nishi">>, <<"w","e","s","t">> }] }
MonthWords == { <<"tsuki">>, <<"m","o","n","t","h">> }
CategoryWords == { <<"ka","te","go","ri">>, <<"c","a","t","e","g","o","r","y">>,
                   <<"c","a","t","e","g","o","r","i","e","s">> }
ChannelWords == { <<"cha","ya","ne","ru">>, <<"c","h","a","n","n","e","l">>,
                  <<"o","n","ra","i","n">>, <<"o","n","l","i","n","e">>,
                  <<"ten","ho">>, <<"s","t","o","r","e">> }
GenericRegionWords == { <<"chi","iki">>, <<"r","e","g","i","o","n">>, <<"chi","hou">> }

HasWord(q, words) == \E word \in words : Contains(Lower(q), word)
MentionedDirections(q) == { d \in Directions : HasWord(q, d.synonyms) }

(* C11: the selector tries the category rule before the generic region     *)
(* rule: a question with a category keyword and a generic region keyword,  *)
(* and no direction, month or channel keyword, gets the query grouped by   *)
(* category, not the one grouped by region.                                *)
C11_CategoryBeforeGenericRegion ==
    (/\ fallback # Pending
     /\ HasWord(question, CategoryWords)
     /\ HasWord(question, GenericRegionWords)
     /\ MentionedDirections(question) = {}
     /\ ~HasWord(question, MonthWords)
     /\ ~HasWord(question, ChannelWords)) =>
        (fallback.sql = CategoryQuery /\ fallback.sql # FALLBACK_region_sales)

(* C12: a question that holds synonyms of exactly one direction gets, from *)
(* the selector and from the deterministic adapter, the query filtered to  *)
(* that region, whatever month, category or channel keywords it also holds.*)
C12_OneDirectionSelectsItsRegion ==
    (/\ fallback # Pending /\ generated # Pending
     /\ Cardinality(MentionedDirections(question)) = 1) =>
        \A d \in MentionedDirections(question) :
            /\ fallback.sql = RegionQuery(d.region)
            /\ generated.sql = MockRegionQuery(d.region)
            /\ Contains(fallback.sql,
                 <<"r","e","g","i","o","n"," ","="," ","'">> \o d.region \o <<"'">>)
            /\ Contains(generated.sql,
                 <<"r","e","g","i","o","n"," ","="," ","'">> \o d.region \o <<"'">>)

\* the question of the region test page; and an abbreviated form next to a
\* channel keyword
C12_Witness ==
    /\ fallback # Pending /\ generated # Pending
    /\ \/ /\ question = <<"kita","bu","chi","iki","no","uri","age">>
          /\ fallback.sql = RegionQuery(<<"N","o","r","t","h">>)
       \/ /\ question = <<"minami">> \o <<"c","h","a","n","n","e","l">>
          /\ generated.sql = MockRegionQuery(<<"S","o","u","t","h">>)

(* C13: a question that holds the text south, in any letter case, gets     *)
(* from the selector the query filtered to region = 'South'.               *)
C13_SouthSelectsSouth ==
    (fallback # Pending /\ Contains(Lower(question), <<"s","o","u","t","h">>)) =>
        fallback.sql = RegionQuery(<<"S","o","u","t","h">>)

(* C13, narrowed: a question that holds the text south, in any letter     *)
(* case, and no synonym of North, which the table tries first, gets from   *)
(* the selector the query filtered to region = 'South', whatever other     *)
(* direction it names.                                                     *)
NorthSynonyms == { <<"kita","bu">>, <<"kita">>, <<"n","o","r","t","h">> }
C13_SouthWithoutNorthSelectsSouth ==
    (/\ fallback # Pending
     /\ Contains(Lower(question), <<"s","o","u","t","h">>)
     /\ ~HasWord(question, NorthSynonyms)) =>
        fallback.sql = RegionQuery(<<"S","o","u","t","h">>)

\* south in mixed case next to another direction
C13_Witness ==
    /\ fallback.sql = RegionQuery(<<"S","o","u","t","h">>)
    /\ Contains(question, <<"S","o","u","t","h">>)
    /\ Cardinality(MentionedDirections(question)) = 2

Canonical(s) == SelectSeq(Lower(s), LAMBDA c : ~IsSpace(c) /\ c # ";")

(* C28: MockLLMAdapter.generate_sql and get_fallback_query are one policy: *)
(* for every question the two return the same template, the two texts      *)
(* differing at most in letter case, whitespace and the terminator.        *)
C28_MockAndFallbackSameTemplate ==
    (fallback # Pending /\ generated # Pending) =>
        Canonical(generated.sql) = Canonical(fallback.sql)

-----------------------------------------------------------------------------
(* llm_adapter.py: create_llm_adapter and the module's generate_sql *)

\* os.getenv(name) is None
Unset == <<"unset">>

\* create_llm_adapter raising on a provider it does not know
create_llm_adapter_UnknownRaises(e) ==
    LET provider == Lower(IF e.LLM_PROVIDER = Unset THEN <<"o","p","e","n","a","i">>
                          ELSE e.LLM_PROVIDER)
        no(api_key) == api_key = Unset \/ api_key = <<>>
    IN IF provider = <<"o","p","e","n","a","i">>
       THEN IF no(e.OPENAI_API_KEY) THEN "MockLLMAdapter"
            ELSE IF ~e.openai THEN "ImportError"
            ELSE "OpenAIAdapter"
       ELSE IF provider = <<"a","n","t","h","r","o","p","i","c">>
       THEN IF no(e.ANTHROPIC_API_KEY) THEN "MockLLMAdapter"
            ELSE IF ~e.anthropic THEN "ImportError"
            ELSE "AnthropicAdapter"
       ELSE "ValueError"

\* create_llm_adapter with another default provider
create_llm_adapter_DefaultAnthropic(e) ==
    LET provider == Lower(IF e.LLM_PROVIDER = Unset
                          THEN <<"a","n","t","h","r","o","p","i","c">>
                          ELSE e.LLM_PROVIDER)
        no(api_key) == api_key = Unset \/ api_key = <<>>
    IN IF provider = <<"o","p","e","n","a","i">>
       THEN IF no(e.OPENAI_API_KEY) THEN "MockLLMAdapter"
            ELSE IF ~e.openai THEN "ImportError"
            ELSE "OpenAIAdapter"
       ELSE IF provider = <<"a","n","t","h","r","o","p","i","c">>
       THEN IF no(e.ANTHROPIC_API_KEY) THEN "MockLLMAdapter"
            ELSE IF ~e.anthropic THEN "ImportError"
            ELSE "AnthropicAdapter"
       ELSE "MockLLMAdapter"

\* create_llm_adapter: the adapter class it returns, or the ImportError the
\* adapter's constructor raises when the provider's package did not import
create_llm_adapter(e) ==
    LET provider == Lower(IF e.LLM_PROVIDER = Unset THEN <<"o","p","e","n","a","i">>
                          ELSE e.LLM_PROVIDER)
        no(api_key) == api_key = Unset \/ api_key = <<>>
    IN IF provider = <<"o","p","e","n","a","i">>
       THEN IF no(e.OPENAI_API_KEY) THEN "MockLLMAdapter"
            ELSE IF ~e.openai THEN "ImportError"
            ELSE "OpenAIAdapter"
       ELSE IF provider = <<"a","n","t","h","r","o","p","i","c">>
       THEN IF no(e.ANTHROPIC_API_KEY) THEN "MockLLMAdapter"
            ELSE IF ~e.anthropic THEN "ImportError"
            ELSE "AnthropicAdapter"
       ELSE "MockLLMAdapter"

\* What a provider's completion can be, before the adapter strips it
ProviderCompletions ==
    { <<"s","e","l","e","c","t"," ","x"," ","f","r","o","m"," ","s","a","l","e",
  "s">>,
      <<"s","e","l","e","c","t"," ","x"," ","f","r","o","m"," ","s","a","l","e",
  "s",";">>,
      FenceSql \o <<"\n">> \o <<"S","E","L","E","C","T"," ","r","e","g","i","o","n",","," ","s","u","m",
  "(","r","e","v","e","n","u","e",")"," ","F","R","O","M"," ","s","a","l",
  "e","s"," ","G","R","O","U","P"," ","B","Y"," ","1">>
          \o CloseFence \o <<"\n">>,
      <<"s","e","l","e","c","t"," ","x"," ","f","r","o","m"," ","s","a","l","e",
  "s"," ","l","i","m","i","t"," ","1","0">>,
      <<"s","e","l","e","c","t"," ","x"," ","f","r","o","m"," ","s","a","l","e",
  "s",";"," ","D","R","O","P"," ","T","A","B","L","E"," ","s","a","l","e",
  "s",";","-","-">>,
      <<"P","R","A","G","M","A"," ","t","a","b","l","e","_","i","n","f","o","(",
  "s","a","l","e","s",")">>,
      <<"s","e","l","e","c","t"," ","u","p","d","a","t","e","d","_","a","t"," ",
  "f","r","o","m"," ","s","a","l","e","s">>,
      <<"\n">> }

\* llm_adapter.generate_sql(question, schema): what it can return or raise
GenerateOutcomes(e, q) ==
    LET created == create_llm_adapter(e)
    IN IF created = "MockLLMAdapter" THEN { Returned(Mock_generate_sql(q)) }
       ELSE IF created = "ImportError" THEN { Raised("ImportError") }
       ELSE { Returned(Strip(c)) : c \in ProviderCompletions }
                \cup { Raised("provider error") }

\* llm_adapter.summarize(sql, data_preview): the deterministic adapter
\* always returns a text, a provider returns one or raises
SummarizeOutcomes(e) ==
    LET created == create_llm_adapter(e)
    IN IF created = "MockLLMAdapter" THEN { Returned(<<"s","u","m","m","a","r","y">>) }
       ELSE IF created = "ImportError" THEN { Raised("ImportError") }
       ELSE { Returned(<<"s","u","m","m","a","r","y">>), Raised("provider error") }

-----------------------------------------------------------------------------
(* create_llm_adapter over the configurations of the environment *)

ProviderNames ==
    { Unset, <<>>, <<"o","p","e","n","a","i">>, <<"O","p","e","n","A","I">>,
      <<"a","n","t","h","r","o","p","i","c">>,
      <<"A","N","T","H","R","O","P","I","C">>, <<"g","e","m","i","n","i">>,
      <<"o","p","e","n","a","i"," ">> }
Credentials == { Unset, <<>>, <<"s","k">> }
Configurations ==
    [LLM_PROVIDER : ProviderNames, OPENAI_API_KEY : Credentials,
     ANTHROPIC_API_KEY : Credentials, openai : BOOLEAN, anthropic : BOOLEAN]

AdapterInit ==
    /\ env \in Configurations
    /\ adapter = "none"
    /\ pc = "none" /\ sql = <<>> /\ executed = <<>> /\ result_df = 0
    /\ summary = Pending /\ messages = <<>> /\ asked = 0 /\ rendered = <<>>
    /\ df = NoTable /\ chart = NoChart
    /\ raw_sql = <<>> /\ sanitized = Pending /\ resanitized = Pending
    /\ question = <<>> /\ fallback = Pending /\ generated = Pending
    /\ checked = Pending

\* adapter = create_llm_adapter()
CreateAdapter ==
    /\ adapter = "none"
    /\ adapter' = create_llm_adapter(env)
    /\ UNCHANGED <<guardVars, selectorVars, env, pc, sql, executed, result_df,
                   summary, messages, asked, rendered, vizVars>>

AdapterNext == CreateAdapter

SpecAdapter == AdapterInit /\ [][AdapterNext]_vars

Absent(credential) == credential \in { Unset, <<>> }
ProviderIs(e, name) == e.LLM_PROVIDER # Unset /\ Lower(e.LLM_PROVIDER) = name
Unrecognized(e) ==
    /\ e.LLM_PROVIDER # Unset
    /\ Lower(e.LLM_PROVIDER) \notin { <<"o","p","e","n","a","i">>,
                                      <<"a","n","t","h","r","o","p","i","c">> }

(* C15: when the credential of the selected provider is unset or empty,    *)
(* or the provider's name is not a known one, create_llm_adapter returns   *)
(* the MockLLMAdapter and raises nothing. (With no provider named, the     *)
(* selected provider is the default of line 212, openai.)                  *)
C15_NoCredentialOrUnknownGivesMock ==
    (/\ adapter # "none"
     /\ \/ ProviderIs(env, <<"o","p","e","n","a","i">>) /\ Absent(env.OPENAI_API_KEY)
        \/ ProviderIs(env, <<"a","n","t","h","r","o","p","i","c">>)
             /\ Absent(env.ANTHROPIC_API_KEY)
        \/ env.LLM_PROVIDER = Unset /\ Absent(env.OPENAI_API_KEY)
        \/ Unrecognized(env)) =>
        adapter = "MockLLMAdapter"

\* an unknown provider with both credentials set and no package installed
C15_Witness ==
    /\ adapter = "MockLLMAdapter"
    /\ Unrecognized(env)
    /\ ~Absent(env.OPENAI_API_KEY) /\ ~Absent(env.ANTHROPIC_API_KEY)
    /\ ~env.openai /\ ~env.anthropic

(* C16: with no provider named in the environment, create_llm_adapter      *)
(* returns the MockLLMAdapter, whichever credentials are set.              *)
C16_NoProviderGivesMock ==
    (adapter # "none" /\ env.LLM_PROVIDER = Unset) => adapter = "MockLLMAdapter"

(* C16, narrowed: with no provider named, the adapter is chosen as for the *)
(* provider openai: it is the MockLLMAdapter exactly when OPENAI_API_KEY   *)
(* is unset or empty, whatever ANTHROPIC_API_KEY is; with the key set it   *)
(* is the OpenAIAdapter, or the ImportError of its constructor.            *)
C16_NoProviderMeansOpenAI ==
    (adapter # "none" /\ env.LLM_PROVIDER = Unset) =>
        /\ adapter = "MockLLMAdapter" <=> Absent(env.OPENAI_API_KEY)
        /\ ~Absent(env.OPENAI_API_KEY) =>
             adapter = (IF env.openai THEN "OpenAIAdapter" ELSE "ImportError")

\* no provider named, only the other provider's credential set
C16_Witness ==
    /\ env.LLM_PROVIDER = Unset
    /\ Absent(env.OPENAI_API_KEY) /\ ~Absent(env.ANTHROPIC_API_KEY)
    /\ adapter = "MockLLMAdapter"

-----------------------------------------------------------------------------
(* chatbot_app.py: process_and_store_question, statement by statement *)

MaxTurns == 1     \* questions asked in one session
MaxRows == 1      \* rows of a result table

\* The environments the page is run in
Envs ==
    { [LLM_PROVIDER |-> Unset, OPENAI_API_KEY |-> Unset,
       ANTHROPIC_API_KEY |-> Unset, openai |-> TRUE, anthropic |-> TRUE],
      [LLM_PROVIDER |-> Unset, OPENAI_API_KEY |-> <<"s","k">>,
       ANTHROPIC_API_KEY |-> Unset, openai |-> TRUE, anthropic |-> TRUE],
      [LLM_PROVIDER |-> <<"A","n","t","h","r","o","p","i","c">>, OPENAI_API_KEY |-> Unset,
       ANTHROPIC_API_KEY |-> <<"s","k">>, openai |-> TRUE, anthropic |-> FALSE],
      [LLM_PROVIDER |-> <<"g","e","m","i","n","i">>, OPENAI_API_KEY |-> <<"s","k">>,
       ANTHROPIC_API_KEY |-> <<"s","k">>, openai |-> TRUE, anthropic |-> TRUE],
      [LLM_PROVIDER |-> <<"o","p","e","n","a","i">>, OPENAI_API_KEY |-> <<>>,
       ANTHROPIC_API_KEY |-> <<"s","k">>, openai |-> FALSE, anthropic |-> TRUE] }

\* The questions typed into the page
AskedQuestions == { <<"kita","bu","chi","iki","no","uri","age">>, <<"cha","ya","ne","ru","no","uri","age">>, <<>> }

\* A message of the log; keys are the dict's keys
UserMessage(q) ==
    [keys |-> {"role", "content"}, role |-> "user",
     content |-> [kind |-> "question", text |-> q, rows |-> 0, summary |-> FALSE],
     has_data |-> FALSE, result_df |-> 0, sql |-> <<>>]
TextMessage(kind) ==
    [keys |-> {"role", "content"}, role |-> "assistant",
     content |-> [kind |-> kind, text |-> <<>>, rows |-> 0, summary |-> FALSE],
     has_data |-> FALSE, result_df |-> 0, sql |-> <<>>]
\* response_parts: the query, the row count, the summary when there is one
DataMessage(query, rows, summarized) ==
    [keys |-> {"role", "content", "has_data", "result_df", "sql"},
     role |-> "assistant",
     content |-> [kind |-> "response", text |-> query, rows |-> rows,
                  summary |-> summarized],
     has_data |-> TRUE, result_df |-> rows, sql |-> query]

Turns == Cardinality({ i \in 1..Len(messages) : messages[i].role = "user" })

Init ==
    /\ env \in Envs
    /\ pc = "idle"
    /\ messages = <<>>
    /\ question = <<>> /\ generated = Pending /\ sanitized = Pending
    /\ fallback = Pending /\ sql = <<>> /\ executed = <<>>
    /\ result_df = 0 /\ summary = Pending
    /\ raw_sql = <<>> /\ resanitized = Pending /\ checked = Pending
    /\ adapter = "none" /\ asked = 0 /\ rendered = <<>>
    /\ df = NoTable /\ chart = NoChart

\* line 170: the user's message is appended, then the locals are fresh
Begin(q) ==
    /\ pc = "idle"
    /\ Turns < MaxTurns
    /\ messages' = Append(messages, UserMessage(q))
    /\ question' = q
    /\ generated' = Pending /\ sanitized' = Pending /\ fallback' = Pending
    /\ sql' = <<>> /\ executed' = <<>> /\ result_df' = 0 /\ summary' = Pending
    /\ pc' = "generate"
    /\ asked' = asked + 1
    /\ UNCHANGED <<env, raw_sql, resanitized, checked, adapter, rendered,
                   vizVars>>

\* line 180: raw_sql = llm_adapter.generate_sql(...); a raise goes to line 184
Generate ==
    /\ pc = "generate"
    /\ \E outcome \in GenerateOutcomes(env, question) :
         /\ generated' = outcome
         /\ raw_sql' = outcome.sql
         /\ pc' = IF outcome.ok THEN "sanitize" ELSE "fallback"
    /\ adapter' = create_llm_adapter(env)
    /\ UNCHANGED <<sanitized, resanitized, question, fallback, checked, env,
                   sql, executed, result_df, summary, messages, asked,
                   rendered, vizVars>>

\* line 182: sql = sql_guard.sanitize_sql(raw_sql); a raise goes to line 184
\* a rejection of the guard written into the log before the fallback
Guard_Logging ==
    /\ pc = "sanitize"
    /\ LET outcome == sanitize_sql(raw_sql)
       IN /\ sanitized' = outcome
          /\ sql' = IF outcome.ok THEN outcome.sql ELSE sql
          /\ pc' = IF outcome.ok THEN "execute" ELSE "fallback"
          /\ messages' = IF outcome.ok THEN messages
                         ELSE Append(messages, TextMessage("validation error"))
    /\ UNCHANGED <<raw_sql, resanitized, question, fallback, generated,
                   checked, env, executed, result_df, summary,
                   adapter, asked, rendered, vizVars>>

Guard ==
    /\ pc = "sanitize"
    /\ LET outcome == sanitize_sql(raw_sql)
       IN /\ sanitized' = outcome
          /\ sql' = IF outcome.ok THEN outcome.sql ELSE sql
          /\ pc' = IF outcome.ok THEN "execute" ELSE "fallback"
    /\ UNCHANGED <<raw_sql, resanitized, question, fallback, generated,
                   checked, env, executed, result_df, summary, messages,
                   adapter, asked, rendered, vizVars>>

\* the except of line 184 reporting the failure instead of falling back
Fallback_Surface ==
    /\ pc = "fallback"
    /\ messages' = Append(messages, TextMessage("error"))
    /\ pc' = "idle"
    /\ UNCHANGED <<guardVars, selectorVars, env, sql, executed, result_df,
                   summary, adapter, asked, rendered, vizVars>>

\* line 186: sql = sql_guard.get_fallback_query(question)
Fallback ==
    /\ pc = "fallback"
    /\ fallback' = Returned(get_fallback_query(question))
    /\ sql' = get_fallback_query(question)
    /\ pc' = "execute"
    /\ UNCHANGED <<guardVars, question, generated, checked, env, executed,
                   result_df, summary, messages, adapter, asked, rendered,
                   vizVars>>

\* lines 192-205: the engine runs sql and returns rows, returns none, or
\* raises
ExecuteRows ==
    /\ pc = "execute"
    /\ executed' = Append(executed, sql)
    /\ \E n \in 1..MaxRows : result_df' = n
    /\ pc' = "summarize"
    /\ UNCHANGED <<guardVars, selectorVars, env, sql, summary, messages,
                   adapter, asked, rendered, vizVars>>

\* the empty result answered by a second query, the selector's
ExecuteEmpty_Retry ==
    /\ pc = "execute"
    /\ executed' = Append(executed, sql)
    /\ result_df' = 0
    /\ pc' = "fallback"
    /\ UNCHANGED <<guardVars, selectorVars, env, sql, summary, messages,
                   adapter, asked, rendered, vizVars>>

ExecuteEmpty ==
    /\ pc = "execute"
    /\ executed' = Append(executed, sql)
    /\ result_df' = 0
    /\ messages' = Append(messages, TextMessage("empty result"))
    /\ pc' = "idle"
    /\ UNCHANGED <<guardVars, selectorVars, env, sql, summary, adapter, asked,
                   rendered, vizVars>>

\* line 205 without its return
ExecuteError_NoReturn ==
    /\ pc = "execute"
    /\ executed' = Append(executed, sql)
    /\ messages' = Append(messages, TextMessage("execution error"))
    /\ pc' = "summarize"
    /\ UNCHANGED <<guardVars, selectorVars, env, sql, result_df, summary,
                   adapter, asked, rendered, vizVars>>

ExecuteError ==
    /\ pc = "execute"
    /\ executed' = Append(executed, sql)
    /\ messages' = Append(messages, TextMessage("execution error"))
    /\ pc' = "idle"
    /\ UNCHANGED <<guardVars, selectorVars, env, sql, result_df, summary,
                   adapter, asked, rendered, vizVars>>

\* a raise of llm_adapter.summarize ending the turn with an error message
Summarize_Surface ==
    /\ pc = "summarize"
    /\ summary' \in SummarizeOutcomes(env)
    /\ adapter' = create_llm_adapter(env)
    /\ pc' = IF summary'.ok THEN "store" ELSE "idle"
    /\ messages' = IF summary'.ok THEN messages
                   ELSE Append(messages, TextMessage("error"))
    /\ UNCHANGED <<guardVars, selectorVars, env, sql, executed, result_df,
                   asked, rendered, vizVars>>

\* lines 214-219: the summary, dropped when llm_adapter.summarize raises
Summarize ==
    /\ pc = "summarize"
    /\ summary' \in SummarizeOutcomes(env)
    /\ adapter' = create_llm_adapter(env)
    /\ pc' = "store"
    /\ UNCHANGED <<guardVars, selectorVars, env, sql, executed, result_df,
                   messages, asked, rendered, vizVars>>

\* the response written over the last message of the log
Store_Overwrite ==
    /\ pc = "store"
    /\ messages' = [messages EXCEPT ![Len(messages)] =
                        DataMessage(sql, result_df, summary.ok)]
    /\ pc' = "idle"
    /\ UNCHANGED <<guardVars, selectorVars, env, sql, executed, result_df,
                   summary, adapter, asked, rendered, vizVars>>

\* the response stored with its table and without its query
Store_NoQuery ==
    /\ pc = "store"
    /\ messages' = Append(messages,
                       [DataMessage(sql, result_df, summary.ok)
                           EXCEPT !.keys = @ \ {"sql"}])
    /\ pc' = "idle"
    /\ UNCHANGED <<guardVars, selectorVars, env, sql, executed, result_df,
                   summary, adapter, asked, rendered, vizVars>>

\* lines 221-231: the assistant's message with the table and the query.
\* (The handler of lines 233-236 is never entered: every call of the body
\* that can raise sits in a try of its own.)
Store ==
    /\ pc = "store"
    /\ messages' = Append(messages, DataMessage(sql, result_df, summary.ok))
    /\ pc' = "idle"
    /\ UNCHANGED <<guardVars, selectorVars, env, sql, executed, result_df,
                   summary, adapter, asked, rendered, vizVars>>

\* main, lines 290-322: the page is drawn again from the log; the table
\* and the chart are shown for the messages with has_data
HasData(message) == "has_data" \in message.keys /\ message.has_data
Display(log) ==
    [i \in 1..Len(log) |->
        [role |-> log[i].role,
         table |-> log[i].role = "assistant" /\ HasData(log[i]),
         chart |-> log[i].role = "assistant" /\ HasData(log[i])]]
Render ==
    /\ pc = "idle"
    /\ rendered' = Display(messages)
    /\ UNCHANGED <<guardVars, selectorVars, env, pc, sql, executed, result_df,
                   summary, messages, adapter, asked, vizVars>>

Next ==
    \/ \E q \in AskedQuestions : Begin(q)
    \/ Generate
    \/ Guard
    \/ Fallback
    \/ ExecuteRows
    \/ ExecuteEmpty
    \/ ExecuteError
    \/ Summarize
    \/ Store
    \/ Render

Spec == Init /\ [][Next]_vars

(* C2: every query process_and_store_question hands to the engine, on the  *)
(* validated path and on the fallback path, begins with SELECT, holds no   *)
(* forbidden keyword, and has a GROUP BY clause or a LIMIT.                *)
C2_ExecutedQueriesValidated ==
    \A i \in 1..Len(executed) :
        /\ BeginsWithSelect(executed[i])
        /\ ~HasForbiddenKeyword(executed[i])
        /\ HasKeyword(executed[i], GroupBy) \/ HasKeyword(executed[i], Limit)

\* a provider's query that the guard capped is the one executed
C2_Witness ==
    /\ Len(executed) = 1
    /\ create_llm_adapter(env) = "OpenAIAdapter"
    /\ sanitized.ok
    /\ executed[1] = sanitized.sql
    /\ EndsWith(executed[1], CapText \o <<";">>)
    /\ ~HasKeyword(raw_sql, Limit)

-----------------------------------------------------------------------------
(* The conversation log of process_and_store_question *)

Running == pc \in {"generate", "sanitize", "fallback", "execute", "summarize", "store"}
LastMessage == messages[Len(messages)]
GenerationFailed == generated # Pending /\ ~generated.ok
ValidationFailed == sanitized # Pending /\ ~sanitized.ok
TextOnly(message) ==
    /\ message.keys = {"role", "content"}
    /\ ~HasData(message)

(* C17: for every question processed, whatever the outcomes of generation, *)
(* validation, execution and summary, exactly one turn is appended to the  *)
(* log.                                                                    *)
C17_OneTurnPerQuestion ==
    pc = "idle" => Len(messages) = asked

(* C17, narrowed: for every question processed, whatever the outcomes,     *)
(* exactly two turns are appended to the log: first the user's turn with   *)
(* the question, then exactly one assistant turn.                          *)
C17_UserTurnThenOneAssistantTurn ==
    /\ pc = "idle" => Len(messages) = 2 * asked
    /\ Running => Len(messages) = 2 * asked - 1
    /\ \A i \in 1..Len(messages) :
         messages[i].role = IF i % 2 = 1 THEN "user" ELSE "assistant"
    /\ Running => LastMessage = UserMessage(question)

\* generation failed, the fallback query's execution failed too
C17_Witness ==
    /\ pc = "idle" /\ asked = 1
    /\ GenerationFailed
    /\ Len(executed) = 1
    /\ Len(messages) = 2
    /\ LastMessage.content.kind = "execution error"

(* C18: the log is append-only: every step of the page, a question being   *)
(* processed or the page being drawn again, leaves the messages already in *)
(* the log at their positions and unchanged.                               *)
C18_LogAppendOnly ==
    [][/\ Len(messages') >= Len(messages)
       /\ SubSeq(messages', 1, Len(messages)) = messages]_vars

\* a question answered with a table, and the page drawn again after it
C18_Witness ==
    /\ pc = "idle"
    /\ Len(messages) = 2
    /\ HasData(messages[2])
    /\ rendered = Display(messages)

(* C19: a generate_sql that raises or returns an empty completion, and a   *)
(* candidate the guard rejects, are absorbed: the handler goes on to       *)
(* execute get_fallback_query(question) and nothing else, and the message  *)
(* it logs is the response, or the report of what the execution did, not   *)
(* of the failure.                                                         *)
C19_FailuresAbsorbedByFallback ==
    (GenerationFailed \/ ValidationFailed) =>
        /\ pc = "execute" =>
             (sql = get_fallback_query(question) /\ executed = <<>>)
        /\ pc \in {"summarize", "store", "idle"} =>
             executed = <<get_fallback_query(question)>>
        /\ pc = "idle" =>
             \/ /\ HasData(LastMessage)
                /\ LastMessage.sql = get_fallback_query(question)
                /\ LastMessage.content.kind = "response"
             \/ /\ TextOnly(LastMessage)
                /\ LastMessage.content.kind \in {"empty result", "execution error"}

\* an empty completion: the guard raises on it, the fallback query's table
\* is logged
C19_Witness ==
    /\ pc = "idle"
    /\ generated = Returned(<<>>)
    /\ ValidationFailed
    /\ executed = <<get_fallback_query(question)>>
    /\ HasData(LastMessage)

(* C20: when the execution of the query raises or returns no rows, the     *)
(* turn ends there with an assistant message that holds a text only: no    *)
(* table, no query, so no chart when the page is drawn; the engine is not  *)
(* called again and the selector is not called after the attempt.          *)
C20_FailedExecutionEndsTurn ==
    (Len(executed) >= 1 /\ result_df = 0) =>
        /\ pc = "idle"
        /\ Len(executed) = 1
        /\ LastMessage.role = "assistant"
        /\ TextOnly(LastMessage)
        /\ LastMessage.sql = <<>> /\ LastMessage.result_df = 0
        /\ LastMessage.content.kind \in {"empty result", "execution error"}
        /\ ~Display(messages)[Len(messages)].table
        /\ ~Display(messages)[Len(messages)].chart
        /\ fallback # Pending => executed = <<fallback.sql>>

\* the validated query of a provider returned no rows
C20_Witness ==
    /\ pc = "idle"
    /\ sanitized.ok /\ fallback = Pending
    /\ executed = <<sanitized.sql>>
    /\ LastMessage = TextMessage("empty result")
    /\ Len(rendered) = Len(messages)

SummaryFailed == summary # Pending /\ ~summary.ok

(* C21: when the execution returned rows and llm_adapter.summarize raises, *)
(* the turn is logged all the same: the assistant's message carries the    *)
(* result table and the executed query, and holds no summary.              *)
C21_FailedSummaryStillLogged ==
    (pc = "idle" /\ SummaryFailed) =>
        /\ result_df >= 1
        /\ Len(messages) = 2 * asked
        /\ LastMessage.role = "assistant"
        /\ HasData(LastMessage)
        /\ {"result_df", "sql"} \subseteq LastMessage.keys
        /\ LastMessage.result_df = result_df
        /\ LastMessage.sql = executed[Len(executed)]
        /\ LastMessage.content.kind = "response"
        /\ ~LastMessage.content.summary

\* the rows of a provider's validated query, the summary call raising
C21_Witness ==
    /\ pc = "idle"
    /\ SummaryFailed
    /\ sanitized.ok /\ fallback = Pending
    /\ result_df >= 1
    /\ LastMessage = DataMessage(sanitized.sql, result_df, FALSE)

(* C29: within the processing of one question the log is appended to only  *)
(* at the final step: every step that adds a message ends the processing,  *)
(* none is added while the query is generated, validated, executed or      *)
(* summarized.                                                             *)
C29_AppendOnlyAtFinalStep ==
    [][messages' # messages => pc' = "idle"]_vars

(* C29, narrowed: the log is appended to at the two ends of the processing *)
(* of a question and nowhere between them: the step that takes the         *)
(* question appends the user's message before the query is generated, and  *)
(* every other step that adds a message adds one assistant message and     *)
(* ends the processing.                                                    *)
C29_AppendAtStartAndFinalStep ==
    [][messages' # messages =>
          \/ /\ pc = "idle" /\ pc' = "generate"
             /\ messages' = Append(messages, UserMessage(question'))
          \/ /\ Running /\ pc' = "idle"
             /\ Len(messages') = Len(messages) + 1
             /\ SubSeq(messages', 1, Len(messages)) = messages
             /\ messages'[Len(messages')].role = "assistant"]_vars

\* the summary being made: the log holds the user's message alone
C29_Witness ==
    /\ pc = "summarize"
    /\ Len(executed) = 1 /\ result_df >= 1
    /\ messages = <<UserMessage(question)>>

-----------------------------------------------------------------------------
(* simple_north_test.py: the handler of the page's test button *)

MaxPresses == 3    \* presses of the test button in one session

NorthQuestion == <<"kita","bu","chi","iki","no","uri","age">>

\* lines 12-14: the page drops both API keys when it is loaded
NorthInit ==
    /\ env \in { [e EXCEPT !.OPENAI_API_KEY = Unset, !.ANTHROPIC_API_KEY = Unset] :
                 e \in Envs }
    /\ pc = "idle"
    /\ messages = <<>>
    /\ question = <<>> /\ generated = Pending /\ sanitized = Pending
    /\ fallback = Pending /\ sql = <<>> /\ executed = <<>>
    /\ result_df = 0 /\ summary = Pending
    /\ raw_sql = <<>> /\ resanitized = Pending /\ checked = Pending
    /\ adapter = "none" /\ asked = 0 /\ rendered = <<>>
    /\ df = NoTable /\ chart = NoChart

\* lines 42-46: the button is pressed, the user's message is appended
NorthPress ==
    /\ pc = "idle"
    /\ Turns < MaxPresses
    /\ question' = NorthQuestion
    /\ messages' = Append(messages, UserMessage(NorthQuestion))
    /\ generated' = Pending /\ sql' = <<>> /\ executed' = <<>> /\ result_df' = 0
    /\ pc' = "generate"
    /\ asked' = asked + 1
    /\ UNCHANGED <<guardVars, fallback, checked, env, summary, adapter,
                   rendered, vizVars>>

\* line 50: sql = llm_adapter.generate_sql(question, schema_info); a raise
\* goes to line 70, which appends the error
NorthGenerate ==
    /\ pc = "generate"
    /\ \E outcome \in GenerateOutcomes(env, question) :
         /\ generated' = outcome
         /\ sql' = outcome.sql
         /\ pc' = IF outcome.ok THEN "execute" ELSE "idle"
         /\ messages' = IF outcome.ok THEN messages
                        ELSE Append(messages, TextMessage("error"))
    /\ adapter' = create_llm_adapter(env)
    /\ UNCHANGED <<guardVars, question, fallback, checked, env, executed,
                   result_df, summary, asked, rendered, vizVars>>

\* lines 54-64: result_df = con.execute(sql).df(), the query as generated
NorthExecuteRows ==
    /\ pc = "execute"
    /\ executed' = Append(executed, sql)
    /\ \E n \in 1..MaxRows :
         /\ result_df' = n
         /\ messages' = Append(messages,
              [TextMessage("north response") EXCEPT !.content.rows = n])
    /\ pc' = "idle"
    /\ UNCHANGED <<guardVars, selectorVars, env, sql, summary, adapter, asked,
                   rendered, vizVars>>

\* lines 66-68
NorthExecuteEmpty ==
    /\ pc = "execute"
    /\ executed' = Append(executed, sql)
    /\ result_df' = 0
    /\ messages' = Append(messages, TextMessage("empty result"))
    /\ pc' = "idle"
    /\ UNCHANGED <<guardVars, selectorVars, env, sql, summary, adapter, asked,
                   rendered, vizVars>>

\* lines 70-72
NorthExecuteError ==
    /\ pc = "execute"
    /\ executed' = Append(executed, sql)
    /\ messages' = Append(messages, TextMessage("error"))
    /\ pc' = "idle"
    /\ UNCHANGED <<guardVars, selectorVars, env, sql, result_df, summary,
                   adapter, asked, rendered, vizVars>>

NorthNext ==
    \/ NorthPress
    \/ NorthGenerate
    \/ NorthExecuteRows
    \/ NorthExecuteEmpty
    \/ NorthExecuteError

SpecNorthTest == NorthInit /\ [][NorthNext]_vars

(* C3: a query the adapter produced is never executed as it is: every      *)
(* query handed to the engine is what sanitize_sql returned for the        *)
(* adapter's query, after a call of the guard that succeeded, or it is     *)
(* what get_fallback_query returned.                                       *)
C3_OnlyGuardedOrFallbackExecuted ==
    \A i \in 1..Len(executed) :
        \/ sanitized.ok /\ executed[i] = sanitized.sql
        \/ fallback.ok /\ executed[i] = fallback.sql

-----------------------------------------------------------------------------
(* viz.py: auto_visualize.  A table is the sequence of its columns; a     *)
(* column is a pandas Series: its name, its dtype and its values, written *)
(* as the text each value prints as.                                      *)

MaxColumns == 3    \* columns of a result table

None == "none"
Null == "null"     \* None or NaN in a column of dtype object
NaN == "NaN"
NaT == "NaT"

Series(name, dtype, values) == [name |-> name, dtype |-> dtype, values |-> values]

\* float() of a text, datetime parsing of a text
IsNumberText(v) == v \in {"0", "1234", "5678"}
IsDateText(v) == v \in {"2024-01", "2024-02"}

HasColumn(t, name) == \E i \in DOMAIN t : t[i].name = name
ColumnOf(t, name) == t[CHOOSE i \in DOMAIN t : t[i].name = name]
SetColumn(t, name, column) ==
    [i \in DOMAIN t |-> IF t[i].name = name THEN column ELSE t[i]]
\* len(df)
Rows(t) == IF t = <<>> THEN 0 ELSE Len(t[1].values)
First(S) == CHOOSE i \in S : \A j \in S : i <= j

\* pd.api.types.is_numeric_dtype
is_numeric_dtype(s) == s.dtype = "number"

\* pd.to_numeric(s, errors="coerce"): a datetime becomes its nanoseconds, a
\* text its number, and what does not parse becomes NaN
to_numeric(s) ==
    IF s.dtype = "number" THEN s
    ELSE [s EXCEPT
            !.dtype = "number",
            !.values = [i \in DOMAIN s.values |->
                           IF s.dtype = "datetime" THEN "ns"
                           ELSE IF IsNumberText(s.values[i]) THEN s.values[i]
                           ELSE NaN]]

\* Series.fillna(0)
fillna(s) ==
    [s EXCEPT !.values = [i \in DOMAIN s.values |->
                             IF s.values[i] \in {NaN, Null} THEN "0"
                             ELSE s.values[i]]]

\* lines 7-13.  For the dtypes of a result table (numbers, text,
\* timestamps) to_numeric with errors="coerce" does not raise.
_coerce_numeric(s) ==
    IF is_numeric_dtype(s) THEN s ELSE fillna(to_numeric(s))

\* pd.to_datetime(s, errors="coerce"): a number is read as nanoseconds
\* since 1970, a text that is no date becomes NaT
to_datetime(s) ==
    [s EXCEPT
       !.dtype = "datetime",
       !.values = [i \in DOMAIN s.values |->
                      IF s.dtype = "number" THEN "1970-01"
                      ELSE IF IsDateText(s.values[i]) THEN s.values[i]
                      ELSE NaT]]

\* Series.astype(str)
astype_str(s) ==
    [s EXCEPT
       !.dtype = "object",
       !.values = [i \in DOMAIN s.values |->
                      IF s.values[i] = Null THEN "None" ELSE s.values[i]]]

\* df.sort_values(name): the rows by the dates of the column, NaT last
DateRank(v) ==
    IF v = "1970-01" THEN 0
    ELSE IF v = "2024-01" THEN 1 ELSE IF v = "2024-02" THEN 2 ELSE 3
sort_values(t, name) ==
    LET key == ColumnOf(t, name).values
        n == Len(key)
        order == CHOOSE p \in [1..n -> 1..n] :
                    /\ \A i, j \in 1..n : i # j => p[i] # p[j]
                    /\ \A i, j \in 1..n : i < j =>
                          \/ DateRank(key[p[i]]) < DateRank(key[p[j]])
                          \/ /\ DateRank(key[p[i]]) = DateRank(key[p[j]])
                             /\ p[i] < p[j]
    IN [c \in DOMAIN t |->
           [t[c] EXCEPT !.values = [i \in 1..n |-> t[c].values[order[i]]]]]

\* lines 22-28
with_month(t) ==
    IF HasColumn(t, "month")
    THEN sort_values(SetColumn(t, "month", to_datetime(ColumnOf(t, "month"))),
                     "month")
    ELSE t

\* lines 31-32
dims(t) ==
    SelectSeq(<<"category", "region", "sales_channel", "customer_segment">>,
              LAMBDA c : HasColumn(t, c))
dim(t) == IF dims(t) # <<>> THEN Head(dims(t)) ELSE None

\* line 35
preferred == <<"total_revenue", "revenue", "units", "unit_price">>

\* one pass over the columns: the first that is numeric or coerces
val_OnePass(t) ==
    LET named == SelectSeq(preferred, LAMBDA c : HasColumn(t, c))
        coercible == { i \in DOMAIN t : is_numeric_dtype(_coerce_numeric(t[i])) }
    IN IF named # <<>> THEN [col |-> Head(named), df |-> t]
       ELSE IF coercible # {}
       THEN [col |-> t[First(coercible)].name,
             df |-> [t EXCEPT ![First(coercible)] = _coerce_numeric(@)]]
       ELSE [col |-> None, df |-> t]

\* lines 36-47: the value column, and the table with the column coerced
val(t) ==
    LET named == SelectSeq(preferred, LAMBDA c : HasColumn(t, c))
        numeric == { i \in DOMAIN t : is_numeric_dtype(t[i]) }
        coercible == { i \in DOMAIN t : is_numeric_dtype(_coerce_numeric(t[i])) }
    IN IF named # <<>> THEN [col |-> Head(named), df |-> t]
       ELSE IF numeric # {} THEN [col |-> t[First(numeric)].name, df |-> t]
       ELSE IF coercible # {}
       THEN [col |-> t[First(coercible)].name,
             df |-> [t EXCEPT ![First(coercible)] = _coerce_numeric(@)]]
       ELSE [col |-> None, df |-> t]

\* what the page shows: st.info, st.warning or the figure of px.line, px.bar
NoFigure(reason) ==
    [kind |-> "none", x |-> None, y |-> None, color |-> None,
     reason |-> reason, values |-> <<>>]
Figure(kind, x, y, color, values) ==
    [kind |-> kind, x |-> x, y |-> y, color |-> color,
     reason |-> None, values |-> values]

\* lines 16-72
auto_visualize(t) ==
    IF Rows(t) = 0 THEN NoFigure("no data")
    ELSE LET selected == val(with_month(t))
             frame == selected.df
         IN IF selected.col = None THEN NoFigure("no numeric column")
            ELSE IF HasColumn(frame, "month")
            THEN Figure("line", "month", selected.col, dim(frame),
                        ColumnOf(frame, selected.col).values)
            ELSE LET xcol == IF dim(frame) # None THEN dim(frame) ELSE "index"
                     plot_df == IF HasColumn(frame, xcol)
                                THEN SetColumn(frame, xcol,
                                               astype_str(ColumnOf(frame, xcol)))
                                ELSE frame
                 IN Figure("bar", xcol, selected.col, None,
                           _coerce_numeric(ColumnOf(plot_df, selected.col)).values)

-----------------------------------------------------------------------------
(* Result tables of two rows, and the empty ones *)

Words == <<"abc", "xyz">>
NumberText == <<"1234", "5678">>
Mixed == <<"1234", "abc">>
Sparse == <<"1234", Null>>

MonthColumns ==
    { Series("month", "datetime", <<"2024-02", "2024-01">>),
      Series("month", "object", <<"2024-01", "2024-02">>),
      Series("month", "number", NumberText) }
DimensionColumns ==
    { Series(name, "object", values) :
        name \in {"category", "region"}, values \in {Words, NumberText} }
MeasureColumns ==
    { Series("total_revenue", dtype, NumberText) : dtype \in {"number", "object"} }
        \cup { Series("total_revenue", "object", Words) }
OtherColumns ==
    { Series(name, "object", values) :
        name \in {"name", "amount"},
        values \in {Words, NumberText, Mixed, Sparse} }
        \cup { Series(name, "number", NumberText) : name \in {"name", "amount"} }
Columns == MonthColumns \cup DimensionColumns \cup MeasureColumns \cup OtherColumns

Tables ==
    { t \in UNION { [1..n -> Columns] : n \in 1..MaxColumns } :
        \A i, j \in DOMAIN t : i # j => t[i].name # t[j].name }
EmptyTables ==
    { <<>> } \cup { <<Series(name, "object", <<>>)>> : name \in {"region", "name"} }

VizInit ==
    /\ df \in Tables \cup EmptyTables
    /\ chart = NoChart
    /\ raw_sql = <<>> /\ sanitized = Pending /\ resanitized = Pending
    /\ question = <<>> /\ fallback = Pending /\ generated = Pending
    /\ checked = Pending
    /\ env = NoEnv /\ pc = "none" /\ sql = <<>> /\ executed = <<>>
    /\ result_df = 0 /\ summary = Pending /\ messages = <<>>
    /\ adapter = "none" /\ asked = 0 /\ rendered = <<>>

\* viz.auto_visualize(df)
Visualize ==
    /\ chart = NoChart
    /\ chart' = auto_visualize(df)
    /\ UNCHANGED <<guardVars, selectorVars, env, pc, sql, executed, result_df,
                   summary, messages, adapter, asked, rendered, df>>

VizNext == Visualize

SpecViz == VizInit /\ [][VizNext]_vars

-----------------------------------------------------------------------------
(* The chart inferred for a table *)

Drawn == chart # NoChart
NonEmpty(t) == Rows(t) >= 1
FirstDimension(t) ==
    IF HasColumn(t, "category") THEN "category"
    ELSE IF HasColumn(t, "region") THEN "region"
    ELSE IF HasColumn(t, "sales_channel") THEN "sales_channel"
    ELSE IF HasColumn(t, "customer_segment") THEN "customer_segment"
    ELSE None
PreferredNames == {"total_revenue", "revenue", "units", "unit_price"}
HasPreferredName(t) == \E i \in DOMAIN t : t[i].name \in PreferredNames
FirstPreferredName(t) ==
    IF HasColumn(t, "total_revenue") THEN "total_revenue"
    ELSE IF HasColumn(t, "revenue") THEN "revenue"
    ELSE IF HasColumn(t, "units") THEN "units"
    ELSE "unit_price"

\* a text column, one that has a value which is not a number, one whose
\* values all are numbers, one whose values that are not null all are
IsText(s) == s.dtype = "object"
HasUnparsedValue(s) ==
    \E k \in DOMAIN s.values : s.values[k] # Null /\ ~IsNumberText(s.values[k])
NumericLookingText(s) ==
    IsText(s) /\ \A k \in DOMAIN s.values : IsNumberText(s.values[k])
ParsesAsNumbers(s) == IsText(s) /\ ~HasUnparsedValue(s)
DeclaredNumeric(s) == s.dtype = "number"
\* a key: a text column of words under a name that is not a measure's
KeyNames == {"month", "category", "region", "sales_channel", "customer_segment"}
KeyColumn(s) ==
    /\ IsText(s) /\ s.name \notin PreferredNames
    /\ \A k \in DOMAIN s.values : ~IsNumberText(s.values[k])

\* the value-selection rule as stated: the preferred names, then the first
\* column, the month apart, that is declared numeric or is a text parsing
\* as numbers
Measures(t) == { i \in DOMAIN t : t[i].name # "month" }
ValueRule(t) ==
    LET qualifying == { i \in Measures(t) :
                          DeclaredNumeric(t[i]) \/ ParsesAsNumbers(t[i]) }
    IN IF HasPreferredName(t) THEN FirstPreferredName(t)
       ELSE IF qualifying # {} THEN t[First(qualifying)].name
       ELSE None
\* the rule with the columns declared numeric taken before the texts
ValueRuleDeclaredFirst(t) ==
    LET declared == { i \in Measures(t) : DeclaredNumeric(t[i]) }
        parsing == { i \in Measures(t) : ParsesAsNumbers(t[i]) }
    IN IF HasPreferredName(t) THEN FirstPreferredName(t)
       ELSE IF declared # {} THEN t[First(declared)].name
       ELSE IF parsing # {} THEN t[First(parsing)].name
       ELSE None

(* C22: for every non-empty table with a month column auto_visualize draws *)
(* a line chart with x = month, y = the column of the value-selection rule *)
(* (its columns taken in one pass, or the declared numeric ones first) and *)
(* color = the first of category, region, sales_channel and                *)
(* customer_segment in the table, none when there is none; the columns     *)
(* month, category, total_revenue give line, month, category,              *)
(* total_revenue.                                                          *)
C22_MonthGivesLineChart ==
    (Drawn /\ NonEmpty(df) /\ HasColumn(df, "month") /\ ValueRule(df) # None) =>
        /\ chart.kind = "line"
        /\ chart.x = "month"
        /\ chart.y \in {ValueRule(df), ValueRuleDeclaredFirst(df)}
        /\ chart.color = FirstDimension(df)

(* C23: for every non-empty table without a month column auto_visualize    *)
(* draws a bar chart with x = the first of category, region, sales_channel *)
(* and customer_segment in the table, or the row index when there is none, *)
(* and y = the column of the value-selection rule (its columns taken in    *)
(* one pass, or the declared numeric ones first); the columns region,      *)
(* total_revenue give bar, region, total_revenue.                          *)
C23_NoMonthGivesBarChart ==
    (Drawn /\ NonEmpty(df) /\ ~HasColumn(df, "month") /\ ValueRule(df) # None) =>
        /\ chart.kind = "bar"
        /\ chart.x = IF FirstDimension(df) # None THEN FirstDimension(df)
                     ELSE "index"
        /\ chart.y \in {ValueRule(df), ValueRuleDeclaredFirst(df)}

(* C24: for every non-empty table with no column of a preferred name, no   *)
(* column of numeric type and no text column of parseable numbers,         *)
(* auto_visualize draws no chart and reports that no numeric column was    *)
(* found.                                                                  *)
C24_NoNumericColumnNoChart ==
    (/\ Drawn /\ NonEmpty(df)
     /\ ~HasPreferredName(df)
     /\ \A i \in DOMAIN df : ~DeclaredNumeric(df[i]) /\ ~ParsesAsNumbers(df[i])) =>
        /\ chart.kind = "none"
        /\ chart.reason = "no numeric column"

(* C25: in a table whose columns are one column of numeric-looking text    *)
(* and, in any order around it, text columns of keys, the value column     *)
(* auto_visualize selects is the numeric-looking one, never a key column.  *)
C25_NumericLookingTextSelected ==
    (Drawn /\ NonEmpty(df)) =>
        \A i \in DOMAIN df :
            (/\ NumericLookingText(df[i])
             /\ df[i].name \notin KeyNames
             /\ \A j \in DOMAIN df \ {i} : KeyColumn(df[j])) =>
                chart.y = df[i].name

(* C26: value selection treats a text column as numeric only if each of    *)
(* its values that is not null parses as a number: a text column with a    *)
(* value that does not parse is not selected as the value column.          *)
C26_UnparsedTextNotSelected ==
    Drawn =>
        \A i \in DOMAIN df :
            (/\ IsText(df[i]) /\ HasUnparsedValue(df[i])
             /\ df[i].name \notin PreferredNames \cup {"month"}) =>
                chart.y # df[i].name

(* C27: the value column is the first of total_revenue, revenue, units,    *)
(* unit_price in the table; with none of them, the first column in the     *)
(* table's order that is declared numeric or is a text that coerces to     *)
(* numbers, so that a coercible text column before a numeric-typed column  *)
(* wins.                                                                   *)
C27_FirstNumericOrCoercible ==
    (Drawn /\ NonEmpty(df) /\ ValueRule(df) # None) => chart.y = ValueRule(df)

(* C27, narrowed: the value column is the first of total_revenue, revenue, *)
(* units, unit_price in the table; with none of them, the first column in  *)
(* the table's order, the month column apart, that is declared numeric, a  *)
(* text column before it or not; another column is coerced and selected    *)
(* only in a table with no preferred name and, the month column apart, no  *)
(* column declared numeric.                                                *)
C27_PreferredThenDeclaredNumeric ==
    (Drawn /\ NonEmpty(df)) =>
        LET declared == { i \in DOMAIN df :
                            DeclaredNumeric(df[i]) /\ df[i].name # "month" }
        IN IF HasPreferredName(df) THEN chart.y = FirstPreferredName(df)
           ELSE IF declared # {} THEN chart.y = df[First(declared)].name
           ELSE /\ chart.kind # "none"
                /\ \E i \in DOMAIN df : chart.y = df[i].name /\ i \notin declared

\* a text of numbers before a column declared numeric: the second is charted
C27_Witness ==
    /\ Drawn
    /\ Len(df) = 2
    /\ df[1] = Series("amount", "object", NumberText)
    /\ df[2] = Series("name", "number", NumberText)
    /\ chart.kind = "bar" /\ chart.y = "name"

====
